---- MODULE Spec2Model ----
(***************************************************************************)
(* Intent-to-configuration compiler of nas_project.                        *)
(*                                                                         *)
(* Two compilers live in the repository and both are modelled:             *)
(*   MPLSConfig              (src/src/config.py)                           *)
(*   NetworkConfigGenerator  (src/src/network_config_generator.py)         *)
(* An intent document is drawn in Init; the constructor of the chosen      *)
(* compiler is then run step by step (AS map, backbone lookup, router map, *)
(* loopback pass, one step per link), and afterwards configurations are    *)
(* emitted.                                                                *)
(*                                                                         *)
(* Conventions.  An IPv4 address is an integer while it is iterated and a  *)
(* 4-tuple of octets once it is a string (str(ip)); Python's None is the   *)
(* empty tuple.  A dict is a sequence of its values in insertion order.    *)
(* A text is a sequence of lines, a line a tuple whose head is the fixed   *)
(* part of the line and whose tail holds the formatted values.             *)
(***************************************************************************)
EXTENDS Integers, Sequences, FiniteSets, TLC

VARIABLES
    impl,           \* which compiler class is constructed
    intent,         \* the in-memory intent document (NetworkConfigGenerator writes into it)
    run,            \* 1 for the first construction on this intent, 2 for the second
    phase,          \* position inside the constructor / after it
    err,            \* the exception that left the constructor, or NoErr
    as_objects,     \* MPLSConfig.as_objects (AS objects with their iterators)
    backbone_as,    \* as_number of the backbone AS once identified, 0 before
    routers,        \* the router map, in insertion order
    link_idx,       \* number of links of intent["subnets"] already processed
    drawn,          \* per processed link: the pool it drew from and the /24 drawn
    log,            \* every IP write made by the allocator, in order
    last_out,       \* result of the latest generate_config / generate_router_config call
    all_out,        \* result of the latest generate_all_configs call
    first_out,      \* result of generate_all_configs of the first construction
    project,        \* the router folders of the GNS3 project, in iterdir order
    written,        \* the latest write_router_config call: input, project before, error
    app             \* the fields and widgets of ConfigGeneratorApp

vars == <<impl, intent, run, phase, err, as_objects, backbone_as, routers,
          link_idx, drawn, log, last_out, all_out, first_out, project, written, app>>

(***************************************************************************)
(* Bounds of the model.                                                    *)
(***************************************************************************)
MaxLinks == 2

\* the clock readings an emission may see
Times == {"01:00:00 UTC", "01:00:01 UTC"}

(***************************************************************************)
(* Generic helpers.                                                        *)
(***************************************************************************)
None == <<>>

RECURSIVE Pow2(_)
Pow2(n) == IF n <= 0 THEN 1 ELSE 2 * Pow2(n - 1)

Range(s) == {s[i] : i \in 1..Len(s)}

\* index of the first element of s satisfying Test, 0 when there is none
FirstIdx(s, Test(_)) ==
    IF \E i \in 1..Len(s) : Test(s[i])
    THEN CHOOSE i \in 1..Len(s) : Test(s[i]) /\ \A j \in 1..(i - 1) : ~Test(s[j])
    ELSE 0

\* d[key] = value on a dict kept as a sequence of records with a key field:
\* an existing key keeps its position, a new key is appended
DictPutHost(d, value) ==
    LET i == FirstIdx(d, LAMBDA x : x.hostname = value.hostname)
    IN IF i = 0 THEN Append(d, value) ELSE [d EXCEPT ![i] = value]

DictPutName(d, value) ==
    LET i == FirstIdx(d, LAMBDA x : x.name = value.name)
    IN IF i = 0 THEN Append(d, value) ELSE [d EXCEPT ![i] = value]

(***************************************************************************)
(* ipaddress: networks, hosts(), subnets(new_prefix=24), str().            *)
(***************************************************************************)
PhysicalPrefix == 24

\* the network a.b.c.0/len
Net(a, b, c, len) == [base |-> ((a * 256 + b) * 256 + c) * 256, len |-> len]

\* a key of ipv4_ranges that is not present / a private_network that is None
NoRange == [base |-> -1, len |-> -1]

\* str(IPv4Address(n))
Dotted(n) == <<n \div 16777216, (n \div 65536) % 256, (n \div 256) % 256, n % 256>>

\* str(network.netmask)
MaskOctet(bits) ==
    IF bits <= 0 THEN 0 ELSE IF bits >= 8 THEN 255 ELSE 256 - Pow2(8 - bits)

Netmask(len) ==
    <<MaskOctet(len), MaskOctet(len - 8), MaskOctet(len - 16), MaskOctet(len - 24)>>

\* IPv4Network.hosts(): every address but the network and broadcast address;
\* a /31 yields both of its addresses and a /32 its only one
HostCount(net) ==
    IF net.len = 32 THEN 1
    ELSE IF net.len = 31 THEN 2
    ELSE Pow2(32 - net.len) - 2

Host(net, k) == IF net.len >= 31 THEN net.base + k ELSE net.base + 1 + k

\* IPv4Network.subnets(new_prefix=24): the /24s in ascending order
SubnetCount(net) == Pow2(PhysicalPrefix - net.len)

Subnet(net, k) == [base |-> net.base + 256 * k, len |-> PhysicalPrefix]

\* the mask literals of the allocators
Mask32 == <<255, 255, 255, 255>>
Mask24 == <<255, 255, 255, 0>>

\* addresses covered by a network, as an interval
NetLo(net) == net.base
NetHi(net) == net.base + Pow2(32 - net.len) - 1

(***************************************************************************)
(* Iterators.  st is "absent" (the attribute or key was never set),        *)
(* "none" (set to None) or "live"; pos counts the items already consumed.  *)
(***************************************************************************)
AbsentIter == [st |-> "absent", pos |-> 0]
NoneIter == [st |-> "none", pos |-> 0]
FreshIter == [st |-> "live", pos |-> 0]

(***************************************************************************)
(* Exceptions.  type is the Python exception class, arg its arguments and  *)
(* site the statement that raised it.                                      *)
(***************************************************************************)
NoErr == [type |-> "none", arg |-> <<>>, site |-> "none"]

Raise(type, arg, site) == [type |-> type, arg |-> arg, site |-> site]

(***************************************************************************)
(* The intent documents the model compiles.                                *)
(***************************************************************************)
Loopback0 == "Loopback0"
Ge1 == "GigabitEthernet1"
Ge2 == "GigabitEthernet2"
Ge3 == "GigabitEthernet3"
Ge9 == "GigabitEthernet9"

\* the names in which Python's `"GigabitEthernet" in name` is true
GigabitNames == {Ge1, Ge2, Ge3, Ge9}

AsIntent(num, bb, lb, ph) ==
    [as_number |-> num, backbone |-> bb, loopback |-> lb, physical |-> ph,
     loopback_iter |-> AbsentIter, phys_iter |-> AbsentIter]

\* the "as" array: the backbone candidate AS 100 and the customer ASes 200, 300
AsArray(bb, lb100, ph100, lb200, ph200) ==
    <<AsIntent(100, bb, lb100, ph100),
      AsIntent(200, FALSE, lb200, ph200),
      AsIntent(300, FALSE, NoRange, Net(10, 3, 0, 24))>>

AsConfigs ==
    { \* roomy, pairwise disjoint pools
      AsArray(TRUE, Net(10, 0, 0, 29), Net(10, 1, 0, 23), NoRange, Net(10, 2, 0, 23)),
      \* pools of two loopbacks and of one /24 each
      AsArray(TRUE, Net(10, 0, 0, 30), Net(10, 1, 0, 24), NoRange, Net(10, 2, 0, 24)),
      \* no AS flagged backbone
      AsArray(FALSE, Net(10, 0, 0, 29), Net(10, 1, 0, 23), NoRange, Net(10, 2, 0, 23)),
      \* customer AS 200 declares no physical pool
      AsArray(TRUE, Net(10, 0, 0, 29), Net(10, 1, 0, 23), NoRange, NoRange),
      \* customer AS 200 reuses the backbone's physical range
      AsArray(TRUE, Net(10, 0, 0, 29), Net(10, 1, 0, 23), NoRange, Net(10, 1, 0, 24)),
      \* the backbone's loopback range lies inside its physical range
      AsArray(TRUE, Net(10, 1, 0, 29), Net(10, 1, 0, 23), NoRange, Net(10, 2, 0, 23)),
      \* the backbone declares no loopback pool
      AsArray(TRUE, NoRange, Net(10, 1, 0, 23), NoRange, Net(10, 2, 0, 23)),
      \* customer AS 200 declares a loopback pool
      AsArray(TRUE, Net(10, 0, 0, 29), Net(10, 1, 0, 23), Net(10, 4, 0, 30), Net(10, 2, 0, 23)),
      \* the backbone declares no physical pool
      AsArray(TRUE, Net(10, 0, 0, 29), NoRange, NoRange, Net(10, 2, 0, 23)) }

Vrf(name, rd, ifaces) ==
    [name |-> name, rd |-> rd, export |-> <<rd>>, import |-> <<rd>>,
     associated_interfaces |-> ifaces]

VrfConfigs ==
    { <<>>,
      <<Vrf("A", "100:1", <<Ge1>>), Vrf("B", "100:2", <<Ge2>>)>>,
      \* A names an interface PE1 does not declare, B faces the core first
      <<Vrf("A", "100:1", <<Ge9>>), Vrf("B", "100:2", <<Ge3, Ge1>>)>> }

\* as_number is 0 where the key is absent (PE and P routers)
RouterIntent(hostname, asn, vrfs, ifaces, priv) ==
    [hostname |-> hostname, as_number |-> asn, vrfs |-> vrfs,
     interfaces |-> ifaces, private_network |-> priv]

RouterConfigs(v) ==
    { \* every core router declares Loopback0
      [pe |-> <<RouterIntent("PE1", 0, v, <<Loopback0, Ge1, Ge2, Ge3>>, NoRange),
                RouterIntent("PE2", 0, <<>>, <<Loopback0, Ge1>>, NoRange)>>,
       p  |-> <<RouterIntent("P1", 0, <<>>, <<Loopback0, Ge1, Ge2>>, NoRange)>>,
       ce |-> <<RouterIntent("CE1", 200, <<>>, <<Ge1, Ge2>>, Net(10, 8, 0, 24)),
                RouterIntent("CE2", 300, <<>>, <<Ge1>>, Net(10, 9, 0, 24))>>],
      \* PE2 and P1 declare no Loopback0, CE1 declares one, the CEs share a private network
      [pe |-> <<RouterIntent("PE1", 0, v, <<Loopback0, Ge1, Ge2, Ge3>>, NoRange),
                RouterIntent("PE2", 0, <<>>, <<Ge1>>, NoRange)>>,
       p  |-> <<RouterIntent("P1", 0, <<>>, <<Ge1, Ge2>>, NoRange)>>,
       ce |-> <<RouterIntent("CE1", 200, <<>>, <<Loopback0, Ge1, Ge2>>, Net(10, 8, 0, 24)),
                RouterIntent("CE2", 300, <<>>, <<Ge1>>, Net(10, 8, 0, 24))>>],
      \* three PEs and no P router
      [pe |-> <<RouterIntent("PE1", 0, v, <<Loopback0, Ge1, Ge2, Ge3>>, NoRange),
                RouterIntent("PE2", 0, <<>>, <<Loopback0, Ge1>>, NoRange),
                RouterIntent("PE3", 0, <<>>, <<Loopback0>>, NoRange)>>,
       p  |-> <<>>,
       ce |-> <<RouterIntent("CE1", 200, <<>>, <<Ge1, Ge2>>, Net(10, 8, 0, 24)),
                RouterIntent("CE2", 300, <<>>, <<Ge1>>, Net(10, 9, 0, 24))>>] }

Ep(router, interface) == [router |-> router, interface |-> interface]

\* the links an intent may declare, in the order it declares them
LinkMaster ==
    << <<Ep("PE1", Ge1), Ep("CE1", Ge1)>>,     \* PE-CE
       <<Ep("CE2", Ge1), Ep("PE1", Ge2)>>,     \* CE-PE, the CE first
       <<Ep("PE1", Ge3), Ep("P1", Ge1)>>,      \* core
       <<Ep("P1", Ge2), Ep("PE2", Ge1)>>,      \* core
       <<Ep("PE1", Ge1), Ep("CE2", Ge1)>>,     \* reuses interfaces of the first two
       <<Ep("PE2", Ge1), Ep("CE1", Ge2)>>,     \* a second link of CE1
       <<Ep("PE1", Ge2), Ep("CE1", Ge9)>> >>   \* an interface CE1 does not declare

\* the elements of LinkMaster at the indices in S, in ascending order
RECURSIVE Pick(_, _)
Pick(S, from) ==
    IF from > Len(LinkMaster) THEN <<>>
    ELSE (IF from \in S THEN <<LinkMaster[from]>> ELSE <<>>) \o Pick(S, from + 1)

LinkLists ==
    {Pick(S, 1) : S \in {T \in SUBSET (1..Len(LinkMaster)) : Cardinality(T) <= MaxLinks}}

Intents ==
    { [as |-> a, pe_routers |-> rc.pe, p_routers |-> rc.p, ce_routers |-> rc.ce,
       subnets |-> links] :
      a \in AsConfigs, rc \in UNION {RouterConfigs(v) : v \in VrfConfigs},
      links \in LinkLists }

Impls == {"MPLSConfig", "NetworkConfigGenerator"}

NoOut == [name |-> "", ok |-> FALSE, text |-> <<>>, err |-> NoErr]

NoAll == [called |-> FALSE, ok |-> FALSE, err |-> NoErr, configs |-> <<>>]

\* no GNS3 project is attached while a compiler is exercised on its own
NoProject == <<>>

NoWrite == [called |-> FALSE, cls |-> "", router_configs |-> <<>>, before |-> <<>>,
            err |-> NoErr]

\* ConfigGeneratorApp.__init__: both paths None, the labels at their default
\* text, the button disabled, no message box shown yet
NoApp == [json_file_path |-> None, project_path |-> None,
          json_file_label |-> "No JSON file selected",
          project_path_label |-> "No project path selected",
          generate_button |-> "disabled",
          intent_file |-> None, router_configs |-> <<>>, message |-> "",
          event |-> "__init__"]

Init ==
    /\ impl \in Impls
    /\ intent \in Intents
    /\ run = 1
    /\ phase = "new"
    /\ err = NoErr
    /\ as_objects = <<>>
    /\ backbone_as = 0
    /\ routers = <<>>
    /\ link_idx = 0
    /\ drawn = <<>>
    /\ log = <<>>
    /\ last_out = NoOut
    /\ all_out = NoAll
    /\ first_out = NoAll
    /\ project = NoProject
    /\ written = NoWrite
    /\ app = NoApp

(***************************************************************************)
(* The model objects both compilers build.                                 *)
(*                                                                         *)
(* An interface is [name, ip, mask, mpls, internal, ce_test]: the keys of  *)
(* NetworkConfigGenerator's interface dict; MPLSConfig's Interface object  *)
(* holds the same under ip_address, ip_mask, mpls_enabled and is_internal  *)
(* (it has no ce_test).  ip = None is a key that is absent, or None.       *)
(* A router is [hostname, type, as, vrfs, interfaces, private_network];    *)
(* as is the number of the AS the router refers to.                        *)
(***************************************************************************)
Interface(name) ==
    [name |-> name, ip |-> None, mask |-> None, mpls |-> FALSE, internal |-> FALSE,
     ce_test |-> FALSE]

RECURSIVE InterfaceDict(_, _)
InterfaceDict(names, acc) ==
    IF names = <<>> THEN acc
    ELSE InterfaceDict(Tail(names), DictPutName(acc, Interface(Head(names))))

RouterIdx(rs, hostname) == FirstIdx(rs, LAMBDA r : r.hostname = hostname)

IfaceIdx(r, name) == FirstIdx(r.interfaces, LAMBDA i : i.name = name)

AsIdx(ass, num) == FirstIdx(ass, LAMBDA a : a.as_number = num)

SetIface(rs, ri, ii, iface) == [rs EXCEPT ![ri].interfaces[ii] = iface]

Write(router, interface, ip, pass) ==
    [router |-> router, interface |-> interface, ip |-> ip, pass |-> pass]

\* next(hosts iterator) and next(subnets iterator): the item, or the exception
NextHost(it, net) ==
    IF it.pos < HostCount(net)
    THEN [ok |-> TRUE, ip |-> Host(net, it.pos), it |-> [it EXCEPT !.pos = @ + 1]]
    ELSE [ok |-> FALSE, ip |-> 0, it |-> it]

\* a faulty next(subnets iterator): it starts over at the end of the pool
NextSubnetMut(it, net) ==
    IF net.len > PhysicalPrefix
    THEN [ok |-> FALSE, type |-> "ValueError", net |-> NoRange, it |-> it]
    ELSE [ok |-> TRUE, type |-> "none", net |-> Subnet(net, it.pos % SubnetCount(net)),
          it |-> [it EXCEPT !.pos = @ + 1]]

\* next(subnets iterator) as the code has it
NextSubnet(it, net) ==
    IF net.len > PhysicalPrefix
    THEN [ok |-> FALSE, type |-> "ValueError", net |-> NoRange, it |-> it]
    ELSE IF it.pos < SubnetCount(net)
    THEN [ok |-> TRUE, type |-> "none", net |-> Subnet(net, it.pos),
          it |-> [it EXCEPT !.pos = @ + 1]]
    ELSE [ok |-> FALSE, type |-> "StopIteration", net |-> NoRange, it |-> it]

\* any(routers[ep["router"]].type == "CE" for ep in endpoints), evaluated left
\* to right: "CE" at the first CE, "KeyError" at an unknown router met before
\* one, "none" otherwise
RECURSIVE AnyCE(_, _)
AnyCE(rs, endpoints) ==
    IF endpoints = <<>> THEN "none"
    ELSE LET ri == RouterIdx(rs, Head(endpoints).router)
         IN IF ri = 0 THEN "KeyError"
            ELSE IF rs[ri].type = "CE" THEN "CE"
            ELSE AnyCE(rs, Tail(endpoints))

\* next(ep for ep in endpoints if routers[ep["router"]].type == "CE")
FirstCE(rs, endpoints) ==
    endpoints[FirstIdx(endpoints, LAMBDA ep : /\ RouterIdx(rs, ep.router) # 0
                                              /\ rs[RouterIdx(rs, ep.router)].type = "CE")]

(***************************************************************************)
(* MPLSConfig.__init__ (config.py)                                         *)
(***************************************************************************)
\* AS.__init__
AS(as_intent) ==
    [as_number |-> as_intent.as_number,
     backbone |-> as_intent.backbone,
     loopback |-> as_intent.loopback,
     physical |-> as_intent.physical,
     loopback_iterator |-> IF as_intent.loopback # NoRange THEN FreshIter ELSE AbsentIter,
     physical_iterator |-> IF as_intent.physical # NoRange THEN FreshIter ELSE AbsentIter]

RECURSIVE AsDict(_, _)
AsDict(as_intents, acc) ==
    IF as_intents = <<>> THEN acc
    ELSE LET a == AS(Head(as_intents))
             i == AsIdx(acc, a.as_number)
         IN AsDict(Tail(as_intents), IF i = 0 THEN Append(acc, a) ELSE [acc EXCEPT ![i] = a])

\* Router.__init__
Router(router_intent, asn, type) ==
    [hostname |-> router_intent.hostname,
     type |-> type,
     as |-> asn,
     vrfs |-> router_intent.vrfs,
     interfaces |-> InterfaceDict(router_intent.interfaces, <<>>),
     private_network |-> NoRange]

RECURSIVE MPLS_AddRouters(_, _, _, _)
MPLS_AddRouters(router_intents, type, ass, acc) ==
    IF router_intents = <<>> \/ acc.err # NoErr THEN acc
    ELSE LET r == Head(router_intents)
             asn == IF type = "CE" THEN r.as_number ELSE backbone_as
         IN IF type = "CE" /\ AsIdx(ass, asn) = 0
            THEN [acc EXCEPT !.err = Raise("KeyError", <<asn>>, "as_objects[as_number]")]
            ELSE MPLS_AddRouters(Tail(router_intents), type, ass,
                     [acc EXCEPT !.routers = DictPutHost(@, Router(r, asn, type))])

MPLS_InitializeAs ==
    /\ impl = "MPLSConfig"
    /\ phase = "new"
    /\ as_objects' = AsDict(intent.as, <<>>)
    /\ phase' = "as_done"
    /\ UNCHANGED <<project, written, app, impl, intent, run, err, backbone_as, routers, link_idx, drawn, log,
                   last_out, all_out, first_out>>

MPLS_GetBackboneAs ==
    /\ impl = "MPLSConfig"
    /\ phase = "as_done"
    /\ LET i == FirstIdx(as_objects, LAMBDA a : a.backbone)
       IN IF i # 0
          THEN /\ backbone_as' = as_objects[i].as_number
               /\ phase' = "bb_done"
               /\ err' = err
          ELSE /\ backbone_as' = backbone_as
               /\ phase' = "failed"
               /\ err' = Raise("ValueError", <<"AS backbone non trouve">>, "_get_backbone_as")
    /\ UNCHANGED <<project, written, app, impl, intent, run, as_objects, routers, link_idx, drawn, log,
                   last_out, all_out, first_out>>

MPLS_InitializeRouters ==
    /\ impl = "MPLSConfig"
    /\ phase = "bb_done"
    /\ LET pe == MPLS_AddRouters(intent.pe_routers, "PE", as_objects,
                                 [routers |-> <<>>, err |-> NoErr])
           p == MPLS_AddRouters(intent.p_routers, "P", as_objects, pe)
           ce == MPLS_AddRouters(intent.ce_routers, "CE", as_objects, p)
       IN /\ routers' = IF ce.err = NoErr THEN ce.routers ELSE routers
          /\ err' = ce.err
          /\ phase' = IF ce.err = NoErr THEN "routers_done" ELSE "failed"
    /\ UNCHANGED <<project, written, app, impl, intent, run, as_objects, backbone_as, link_idx, drawn, log,
                   last_out, all_out, first_out>>

\* the loopback loop of _assign_addresses, from router i on
RECURSIVE MPLS_LoopbackPass(_, _)
MPLS_LoopbackPass(i, acc) ==
    IF i > Len(acc.routers) \/ acc.err # NoErr THEN acc
    ELSE LET r == acc.routers[i]
             ii == IfaceIdx(r, Loopback0)
             ai == AsIdx(acc.as_objects, r.as)
             a == acc.as_objects[ai]
         IN IF ii # 0 /\ a.backbone /\ a.loopback_iterator.st # "absent"
            THEN LET n == NextHost(a.loopback_iterator, a.loopback)
                 IN IF n.ok
                    THEN MPLS_LoopbackPass(i + 1,
                           [acc EXCEPT
                              !.routers = SetIface(@, i, ii,
                                  [r.interfaces[ii] EXCEPT !.ip = Dotted(n.ip),
                                                           !.mask = Mask32]),
                              !.as_objects[ai].loopback_iterator = n.it,
                              !.log = Append(@, Write(r.hostname, Loopback0,
                                                      Dotted(n.ip), "loopback"))])
                    ELSE [acc EXCEPT !.err = Raise("StopIteration", <<>>,
                                                   "next(loopback_iterator)")]
            ELSE MPLS_LoopbackPass(i + 1, acc)

MPLS_AssignLoopbacks ==
    /\ impl = "MPLSConfig"
    /\ phase = "routers_done"
    /\ LET res == MPLS_LoopbackPass(1, [routers |-> routers, as_objects |-> as_objects,
                                        log |-> log, err |-> NoErr])
       IN /\ routers' = res.routers
          /\ as_objects' = res.as_objects
          /\ log' = res.log
          /\ err' = res.err
          /\ phase' = IF res.err # NoErr THEN "failed"
                      ELSE IF Len(intent.subnets) = 0 THEN "ready" ELSE "links"
    /\ UNCHANGED <<project, written, app, impl, intent, run, backbone_as, link_idx, drawn, last_out, all_out,
                   first_out>>

\* the endpoint loop of one link of _assign_addresses, from endpoint i on
RECURSIVE MPLS_AssignEndpoints(_, _, _, _, _)
MPLS_AssignEndpoints(i, endpoints, network, is_pe_ce, acc) ==
    IF i > Len(endpoints) \/ acc.err # NoErr THEN acc
    ELSE LET ep == endpoints[i]
             ri == RouterIdx(acc.routers, ep.router)
             ii == IfaceIdx(acc.routers[ri], ep.interface)
             ip == Dotted(Host(network, i - 1))
         IN IF ri = 0
            THEN [acc EXCEPT !.err = Raise("KeyError", <<ep.router>>, "routers[ep.router]")]
            ELSE IF ii = 0
            THEN [acc EXCEPT !.err = Raise("ValueError",
                                           <<"L'interface n'existe pas sur le router",
                                             ep.interface, ep.router>>,
                                           "interfaces.get(ep.interface)")]
            ELSE MPLS_AssignEndpoints(i + 1, endpoints, network, is_pe_ce,
                   [acc EXCEPT
                      !.routers = SetIface(@, ri, ii,
                          [acc.routers[ri].interfaces[ii] EXCEPT
                              !.ip = ip,
                              !.mask = Mask24,
                              !.mpls = IF is_pe_ce THEN @ ELSE TRUE,
                              !.internal = IF is_pe_ce THEN @ ELSE TRUE]),
                      !.log = Append(@, Write(ep.router, ep.interface, ip, "physical"))])

\* a faulty pool selection: every link borrows the backbone's pool
MPLS_PoolOfMut(rs, endpoints, is_pe_ce) == backbone_as

\* the AS whose physical iterator one link draws from
MPLS_PoolOf(rs, endpoints, is_pe_ce) ==
    IF is_pe_ce THEN rs[RouterIdx(rs, FirstCE(rs, endpoints).router)].as ELSE backbone_as

\* one iteration of the link loop of _assign_addresses
MPLS_LinkStep(endpoints) ==
    LET any == AnyCE(routers, endpoints)
        is_pe_ce == any = "CE"
        start == [routers |-> routers, as_objects |-> as_objects, log |-> log,
                  drawn |-> drawn, err |-> NoErr]
    IN IF any = "KeyError"
       THEN [start EXCEPT !.err = Raise("KeyError", <<>>, "routers[ep.router]")]
       ELSE LET asn == MPLS_PoolOf(routers, endpoints, is_pe_ce)
                ai == AsIdx(as_objects, asn)
                a == as_objects[ai]
            IN IF a.physical_iterator.st = "absent"
               THEN [start EXCEPT !.err = Raise("AttributeError", <<"physical_iterator">>,
                                                "next(physical_iterator)")]
               ELSE LET n == NextSubnet(a.physical_iterator, a.physical)
                    IN IF ~n.ok
                       THEN [start EXCEPT !.err = Raise(n.type, <<>>,
                                                        "next(physical_iterator)")]
                       ELSE MPLS_AssignEndpoints(1, endpoints, n.net, is_pe_ce,
                              [start EXCEPT
                                 !.as_objects[ai].physical_iterator = n.it,
                                 !.drawn = Append(@, [as |-> asn, net |-> n.net.base])])

MPLS_AssignLink ==
    /\ impl = "MPLSConfig"
    /\ phase = "links"
    /\ LET res == MPLS_LinkStep(intent.subnets[link_idx + 1])
       IN /\ routers' = res.routers
          /\ as_objects' = res.as_objects
          /\ log' = res.log
          /\ drawn' = res.drawn
          /\ err' = res.err
          /\ link_idx' = IF res.err = NoErr THEN link_idx + 1 ELSE link_idx
          /\ phase' = IF res.err # NoErr THEN "failed"
                      ELSE IF link_idx + 1 = Len(intent.subnets) THEN "ready" ELSE "links"
    /\ UNCHANGED <<project, written, app, impl, intent, run, backbone_as, last_out, all_out, first_out>>

(***************************************************************************)
(* NetworkConfigGenerator.__init__ (network_config_generator.py).  The     *)
(* values of its AS map are the dicts of intent["as"] themselves, so the   *)
(* iterators it adds live in the intent document.                          *)
(***************************************************************************)
\* a faulty iterator loop: it keeps an iterator it already finds in the intent
RECURSIVE NCG_AddIteratorsMut(_, _)
NCG_AddIteratorsMut(i, acc) ==
    IF i > Len(acc.as) \/ acc.err # NoErr THEN acc
    ELSE LET a == acc.as[i]
             lb == IF a.loopback_iter.st = "live" THEN a.loopback_iter
                   ELSE IF a.loopback # NoRange THEN FreshIter ELSE NoneIter
         IN IF a.physical = NoRange
            THEN [acc EXCEPT !.as[i].loopback_iter = lb,
                             !.err = Raise("KeyError", <<"physical">>,
                                           "ipv4_ranges[physical]")]
            ELSE NCG_AddIteratorsMut(i + 1,
                     [acc EXCEPT !.as[i].loopback_iter = lb,
                                 !.as[i].phys_iter = IF a.phys_iter.st = "live"
                                                     THEN a.phys_iter ELSE FreshIter])

\* the iterator loop of __init_as_map, from AS i on: stops at the first AS
\* without a "physical" range, after that AS's loopback_iter was set
RECURSIVE NCG_AddIterators(_, _)
NCG_AddIterators(i, acc) ==
    IF i > Len(acc.as) \/ acc.err # NoErr THEN acc
    ELSE LET a == acc.as[i]
             lb == IF a.loopback # NoRange THEN FreshIter ELSE NoneIter
         IN IF a.physical = NoRange
            THEN [acc EXCEPT !.as[i].loopback_iter = lb,
                             !.err = Raise("KeyError", <<"physical">>,
                                           "ipv4_ranges[physical]")]
            ELSE NCG_AddIterators(i + 1,
                     [acc EXCEPT !.as[i].loopback_iter = lb,
                                 !.as[i].phys_iter = FreshIter])

NCG_InitAsMap ==
    /\ impl = "NetworkConfigGenerator"
    /\ phase = "new"
    /\ LET res == NCG_AddIterators(1, [as |-> intent.as, err |-> NoErr])
           b == FirstIdx(res.as, LAMBDA a : a.backbone)
       IN /\ intent' = [intent EXCEPT !.as = res.as]
          /\ IF res.err # NoErr
             THEN /\ err' = res.err
                  /\ phase' = "failed"
                  /\ backbone_as' = backbone_as
             ELSE IF b = 0
             THEN /\ err' = Raise("StopIteration", <<>>, "next(backbone)")
                  /\ phase' = "failed"
                  /\ backbone_as' = backbone_as
             ELSE /\ err' = err
                  /\ phase' = "bb_done"
                  /\ backbone_as' = res.as[b].as_number
    /\ UNCHANGED <<project, written, app, impl, run, as_objects, routers, link_idx, drawn, log, last_out,
                   all_out, first_out>>

\* one entry of the router map of __create_router_map
NCG_Router(r, rtype) ==
    LET ifs == InterfaceDict(r.interfaces, <<>>)
    IN [hostname |-> r.hostname,
        type |-> rtype,
        as |-> IF rtype = "CE" THEN r.as_number ELSE backbone_as,
        vrfs |-> r.vrfs,
        interfaces |-> IF rtype = "CE" THEN DictPutName(ifs, Interface(Loopback0)) ELSE ifs,
        private_network |-> IF rtype = "CE" THEN r.private_network ELSE NoRange]

RECURSIVE NCG_AddRouters(_, _, _)
NCG_AddRouters(router_intents, rtype, acc) ==
    IF router_intents = <<>> THEN acc
    ELSE NCG_AddRouters(Tail(router_intents), rtype,
                        DictPutHost(acc, NCG_Router(Head(router_intents), rtype)))

NCG_CreateRouterMap ==
    /\ impl = "NetworkConfigGenerator"
    /\ phase = "bb_done"
    /\ routers' = NCG_AddRouters(intent.ce_routers, "CE",
                     NCG_AddRouters(intent.p_routers, "P",
                        NCG_AddRouters(intent.pe_routers, "PE", <<>>)))
    /\ phase' = "routers_done"
    /\ UNCHANGED <<project, written, app, impl, intent, run, err, as_objects, backbone_as, link_idx, drawn, log,
                   last_out, all_out, first_out>>

\* the loopback loop of __assign_ips, from router i on; acc.as is the AS map
RECURSIVE NCG_LoopbackPass(_, _)
NCG_LoopbackPass(i, acc) ==
    IF i > Len(acc.routers) \/ acc.err # NoErr THEN acc
    ELSE LET r == acc.routers[i]
             ii == IfaceIdx(r, Loopback0)
             ai == AsIdx(acc.as, r.as)
             a == acc.as[ai]
         IN IF ii # 0 /\ ai = 0
            THEN [acc EXCEPT !.err = Raise("KeyError", <<r.as>>, "as_map[router.as]")]
            ELSE IF ii # 0 /\ a.loopback_iter.st = "live"
            THEN LET n == NextHost(a.loopback_iter, a.loopback)
                 IN IF n.ok
                    THEN NCG_LoopbackPass(i + 1,
                           [acc EXCEPT
                              !.routers = SetIface(@, i, ii,
                                  [r.interfaces[ii] EXCEPT !.ip = Dotted(n.ip),
                                                           !.mask = Mask32,
                                                           !.internal = TRUE]),
                              !.as[ai].loopback_iter = n.it,
                              !.log = Append(@, Write(r.hostname, Loopback0,
                                                      Dotted(n.ip), "loopback"))])
                    ELSE [acc EXCEPT !.err = Raise("StopIteration", <<>>,
                                                   "next(loopback_iter)")]
            ELSE IF r.type = "CE"
            THEN IF r.private_network = NoRange
                 THEN [acc EXCEPT !.err = Raise("AddressValueError", <<>>,
                                                "IPv4Network(private_network)")]
                 ELSE NCG_LoopbackPass(i + 1,
                        [acc EXCEPT
                           !.routers = SetIface(@, i, ii,
                               [r.interfaces[ii] EXCEPT
                                   !.ip = Dotted(r.private_network.base),
                                   !.mask = Netmask(r.private_network.len),
                                   !.internal = FALSE,
                                   !.ce_test = TRUE]),
                           !.log = Append(@, Write(r.hostname, Loopback0,
                                                   Dotted(r.private_network.base),
                                                   "loopback"))])
            ELSE NCG_LoopbackPass(i + 1, acc)

NCG_AssignLoopbacks ==
    /\ impl = "NetworkConfigGenerator"
    /\ phase = "routers_done"
    /\ LET res == NCG_LoopbackPass(1, [routers |-> routers, as |-> intent.as,
                                       log |-> log, err |-> NoErr])
       IN /\ routers' = res.routers
          /\ intent' = [intent EXCEPT !.as = res.as]
          /\ log' = res.log
          /\ err' = res.err
          /\ phase' = IF res.err # NoErr THEN "failed"
                      ELSE IF Len(intent.subnets) = 0 THEN "ready" ELSE "links"
    /\ UNCHANGED <<project, written, app, impl, run, as_objects, backbone_as, link_idx, drawn, last_out, all_out,
                   first_out>>

\* the endpoint loop of one link of __assign_ips, from endpoint idx on
RECURSIVE NCG_AssignEndpoints(_, _, _, _)
NCG_AssignEndpoints(idx, link, net, acc) ==
    IF idx > Len(link) \/ acc.err # NoErr THEN acc
    ELSE LET ep == link[idx]
             ri == RouterIdx(acc.routers, ep.router)
             ii == IfaceIdx(acc.routers[ri], ep.interface)
             ip == Dotted(Host(net, idx - 1))
         IN IF ri = 0
            THEN [acc EXCEPT !.err = Raise("KeyError", <<ep.router>>, "routers[ep.router]")]
            ELSE IF ii = 0
            THEN [acc EXCEPT !.err = Raise("KeyError", <<ep.interface>>,
                                           "interfaces[ep.interface]")]
            ELSE NCG_AssignEndpoints(idx + 1, link, net,
                   [acc EXCEPT
                      !.routers = SetIface(@, ri, ii,
                          [acc.routers[ri].interfaces[ii] EXCEPT
                              !.ip = ip,
                              !.mask = Mask24,
                              !.mpls = acc.routers[ri].type # "CE",
                              !.internal = acc.routers[ri].type # "CE"]),
                      !.log = Append(@, Write(ep.router, ep.interface, ip, "physical"))])

\* the AS whose phys_iter one link draws from
NCG_PoolOf(rs, link, has_ce) ==
    IF has_ce THEN rs[RouterIdx(rs, FirstCE(rs, link).router)].as ELSE backbone_as

\* one iteration of the link loop of __assign_ips
NCG_LinkStep(link) ==
    LET any == AnyCE(routers, link)
        start == [routers |-> routers, as |-> intent.as, log |-> log, drawn |-> drawn,
                  err |-> NoErr]
    IN IF any = "KeyError"
       THEN [start EXCEPT !.err = Raise("KeyError", <<>>, "routers[ep.router]")]
       ELSE LET asn == NCG_PoolOf(routers, link, any = "CE")
                ai == AsIdx(intent.as, asn)
                a == intent.as[ai]
            IN IF ai = 0
               THEN [start EXCEPT !.err = Raise("KeyError", <<asn>>, "as_map[router.as]")]
               ELSE LET n == NextSubnet(a.phys_iter, a.physical)
                    IN IF ~n.ok
                       THEN [start EXCEPT !.err = Raise(n.type, <<>>, "next(phys_iter)")]
                       ELSE NCG_AssignEndpoints(1, link, n.net,
                              [start EXCEPT
                                 !.as[ai].phys_iter = n.it,
                                 !.drawn = Append(@, [as |-> asn, net |-> n.net.base])])

NCG_AssignLink ==
    /\ impl = "NetworkConfigGenerator"
    /\ phase = "links"
    /\ LET res == NCG_LinkStep(intent.subnets[link_idx + 1])
       IN /\ routers' = res.routers
          /\ intent' = [intent EXCEPT !.as = res.as]
          /\ log' = res.log
          /\ drawn' = res.drawn
          /\ err' = res.err
          /\ link_idx' = IF res.err = NoErr THEN link_idx + 1 ELSE link_idx
          /\ phase' = IF res.err # NoErr THEN "failed"
                      ELSE IF link_idx + 1 = Len(intent.subnets) THEN "ready" ELSE "links"
    /\ UNCHANGED <<project, written, app, impl, run, as_objects, backbone_as, last_out, all_out, first_out>>

(***************************************************************************)
(* Text helpers.                                                           *)
(***************************************************************************)
RECURSIVE Concat(_)
Concat(ss) == IF ss = <<>> THEN <<>> ELSE Head(ss) \o Concat(Tail(ss))

Sentinel == <<0, 0, 0, 0>>

\* x & y on naturals below 2^bits
RECURSIVE BitAnd(_, _, _)
BitAnd(x, y, bits) ==
    IF bits = 0 THEN 0
    ELSE 2 * BitAnd(x \div 2, y \div 2, bits - 1) + (IF x % 2 = 1 /\ y % 2 = 1 THEN 1 ELSE 0)

\* the first VRF of a router that lists the interface, as a sequence of 0 or 1 VRF
AssociatedVrf(r, iface_name) ==
    LET k == FirstIdx(r.vrfs, LAMBDA v : iface_name \in Range(v.associated_interfaces))
    IN IF k = 0 THEN <<>> ELSE <<r.vrfs[k]>>

VrfStanza(vrf) ==
    <<<<"ip vrf", vrf.name>>, <<" rd", vrf.rd>>>>
    \o [k \in 1..Len(vrf.export) |-> <<" route-target export", vrf.export[k]>>]
    \o [k \in 1..Len(vrf.import) |-> <<" route-target import", vrf.import[k]>>]
    \o <<<<"!">>>>

Footer ==
    <<<<"ip forward-protocol nd">>, <<"!">>, <<"line con 0">>, <<" exec-timeout 0 0">>,
      <<" privilege level 15">>, <<" logging synchronous">>, <<"!">>, <<"end">>>>

OtherPEs(rs, hostname) == SelectSeq(rs, LAMBDA r : r.type = "PE" /\ r.hostname # hostname)

IfaceOf(rs, ep) ==
    LET r == rs[RouterIdx(rs, ep.router)]
    IN r.interfaces[IfaceIdx(r, ep.interface)]

AsNumberOf(r) == r.as

(***************************************************************************)
(* Emission of MPLSConfig (config.py): Router.generate_config_lines.       *)
(***************************************************************************)
\* Router._generate_header
MPLS_Header(r, now) ==
    <<<<"!">>, <<"! Last configuration change at", now>>, <<"!">>, <<"version 15.2">>,
      <<"service timestamps debug datetime msec">>,
      <<"service timestamps log datetime msec">>, <<"!">>, <<"hostname", r.hostname>>,
      <<"!">>, <<"no aaa new-model">>, <<"ip cef">>, <<"!">>>>
    \o (IF r.type = "PE" THEN Concat([k \in 1..Len(r.vrfs) |-> VrfStanza(r.vrfs[k])])
        ELSE <<>>)

\* Interface.generate_config
MPLS_InterfaceConfig(iface, router_type, asn, associated_vrf) ==
    <<<<"interface", iface.name>>>>
    \o (IF associated_vrf # <<>> THEN <<<<" ip vrf forwarding", associated_vrf[1].name>>>>
        ELSE <<>>)
    \o (IF iface.ip # None THEN <<<<" ip address", iface.ip, iface.mask>>>> ELSE <<>>)
    \o (IF router_type \in {"PE", "P"} /\ (iface.internal \/ iface.name = Loopback0)
        THEN <<<<" ip ospf 1 area", asn>>>> ELSE <<>>)
    \o (IF iface.name \in GigabitNames THEN <<<<" negotiation auto">>>> ELSE <<>>)
    \o <<<<"!">>>>

\* Router._generate_interfaces
MPLS_Interfaces(r) ==
    Concat([k \in 1..Len(r.interfaces) |->
              MPLS_InterfaceConfig(r.interfaces[k], r.type, AsNumberOf(r),
                                   AssociatedVrf(r, r.interfaces[k].name))])

\* Router._generate_ospf
MPLS_Ospf(r) ==
    LET ii == IfaceIdx(r, Loopback0)
        router_id == IF ii # 0 /\ r.interfaces[ii].ip # None THEN r.interfaces[ii].ip
                     ELSE Sentinel
    IN <<<<"router ospf 1">>, <<" router-id", router_id>>, <<" mpls ldp autoconfig">>,
         <<"!">>>>

\* Router._get_ce_ip
MPLS_GetCeIp(r, vrf) ==
    LET associated_iface == vrf.associated_interfaces[1]
        k == FirstIdx(intent.subnets, LAMBDA subnet :
                 /\ Len(subnet) = 2
                 /\ \E j \in 1..2 : /\ subnet[j].router = r.hostname
                                    /\ subnet[j].interface = associated_iface
                 /\ \E j \in 1..2 : subnet[j].router # r.hostname)
    IN IF k = 0 THEN Sentinel
       ELSE LET subnet == intent.subnets[k]
                ce_endpoint == subnet[FirstIdx(subnet, LAMBDA ep : ep.router # r.hostname)]
            IN IfaceOf(routers, ce_endpoint).ip

\* Router._get_ce_as
MPLS_GetCeAs(r, vrf) ==
    LET k == FirstIdx(intent.subnets, LAMBDA subnet :
                 /\ Len(subnet) = 2
                 /\ \E j \in 1..2 : subnet[j].router = r.hostname
                 /\ \E j \in 1..2 : /\ subnet[j].router # r.hostname
                                    /\ routers[RouterIdx(routers, subnet[j].router)].type
                                           = "CE")
    IN IF k = 0 THEN 0
       ELSE LET subnet == intent.subnets[k]
                ce_router == subnet[FirstIdx(subnet, LAMBDA ep : ep.router # r.hostname)].router
            IN AsNumberOf(routers[RouterIdx(routers, ce_router)])

Lo0Ip(r) == r.interfaces[IfaceIdx(r, Loopback0)].ip

\* a faulty iBGP neighbour loop: it does not skip the router itself
MPLS_NeighborLinesMut(r, pes) ==
    Concat([k \in 1..Len(pes) |->
              <<<<" neighbor", Lo0Ip(pes[k]), "remote-as", AsNumberOf(r)>>,
                <<" neighbor", Lo0Ip(pes[k]), "update-source Loopback0">>>>])

\* the iBGP neighbour loop of _generate_mpbgp
MPLS_NeighborLines(r, pes) ==
    Concat([k \in 1..Len(pes) |->
              IF pes[k].hostname # r.hostname
              THEN <<<<" neighbor", Lo0Ip(pes[k]), "remote-as", AsNumberOf(r)>>,
                     <<" neighbor", Lo0Ip(pes[k]), "update-source Loopback0">>>>
              ELSE <<>>])

\* the vpnv4 loop of _generate_mpbgp
MPLS_ActivateLines(r, pes) ==
    Concat([k \in 1..Len(pes) |->
              IF pes[k].hostname # r.hostname
              THEN <<<<"  neighbor", Lo0Ip(pes[k]), "activate">>,
                     <<"  neighbor", Lo0Ip(pes[k]), "send-community extended">>>>
              ELSE <<>>])

\* the per-VRF block of _generate_mpbgp
MPLS_VrfBlock(r, vrf) ==
    LET ce_remote_as == MPLS_GetCeAs(r, vrf)
        ce_ip == MPLS_GetCeIp(r, vrf)
    IN <<<<"!">>, <<" address-family ipv4 vrf", vrf.name>>,
         <<"  neighbor", ce_ip, "remote-as", ce_remote_as>>,
         <<"  neighbor", ce_ip, "activate">>, <<" exit-address-family">>>>

\* Router._generate_mpbgp; pe_routers is the router map filtered to the PEs
MPLS_Mpbgp(r, pe_routers) ==
    <<<<"router bgp", AsNumberOf(r)>>, <<" bgp router-id", Lo0Ip(r)>>>>
    \o MPLS_NeighborLines(r, pe_routers)
    \o <<<<" !">>, <<" address-family vpnv4">>>>
    \o MPLS_ActivateLines(r, pe_routers)
    \o <<<<" exit-address-family">>>>
    \o Concat([k \in 1..Len(r.vrfs) |-> MPLS_VrfBlock(r, r.vrfs[k])])
    \o <<<<"!">>>>

\* the neighbour lookup of Router._generate_ce_bgp: the first link naming the CE
MPLS_CePeIp(r) ==
    LET k == FirstIdx(intent.subnets, LAMBDA subnet :
                 Len(subnet) = 2 /\ \E j \in 1..2 : subnet[j].router = r.hostname)
    IN IF k = 0 THEN Sentinel
       ELSE LET subnet == intent.subnets[k]
                pe_router_name == IF subnet[2].router = r.hostname THEN subnet[1].router
                                  ELSE subnet[2].router
                pe_ep == IF subnet[1].router = pe_router_name THEN subnet[1] ELSE subnet[2]
                pe_ip == IfaceOf(routers, pe_ep).ip
            IN IF pe_ip = None THEN Sentinel ELSE pe_ip

\* the network lines of Router._generate_ce_bgp: the octets ANDed one by one
MPLS_NetworkLine(iface) ==
    <<" network",
      [k \in 1..4 |-> BitAnd(iface.ip[k], iface.mask[k], 8)],
      "mask", iface.mask>>

\* Router._generate_ce_bgp
MPLS_CeBgp(r) ==
    <<<<"router bgp", AsNumberOf(r)>>,
      <<" neighbor", MPLS_CePeIp(r), "remote-as", backbone_as>>>>
    \o Concat([k \in 1..Len(r.interfaces) |->
                 IF r.interfaces[k].ip # None /\ r.interfaces[k].mask # None
                 THEN <<MPLS_NetworkLine(r.interfaces[k])>> ELSE <<>>])
    \o <<<<"!">>>>

\* the exception generate_config_lines raises, NoErr when it returns
MPLS_EmitErr(r) ==
    IF r.type # "PE" THEN NoErr
    ELSE IF \E k \in 1..Len(routers) :
               routers[k].type = "PE" /\ IfaceIdx(routers[k], Loopback0) = 0
    THEN Raise("KeyError", <<Loopback0>>, "interfaces[Loopback0]")
    ELSE IF \E k \in 1..Len(r.vrfs) : r.vrfs[k].associated_interfaces = <<>>
    THEN Raise("IndexError", <<>>, "associated_interfaces[0]")
    ELSE NoErr

\* Router.generate_config_lines
MPLS_ConfigLines(r, now) ==
    MPLS_Header(r, now)
    \o MPLS_Interfaces(r)
    \o (IF r.type \in {"PE", "P"} THEN MPLS_Ospf(r) ELSE <<>>)
    \o (IF r.type = "PE"
        THEN MPLS_Mpbgp(r, SelectSeq(routers, LAMBDA x : x.type = "PE")) ELSE <<>>)
    \o (IF r.type = "CE" THEN MPLS_CeBgp(r) ELSE <<>>)
    \o Footer

\* MPLSConfig.generate_config
MPLS_GenerateConfig(router_name, now) ==
    LET r == routers[RouterIdx(routers, router_name)]
        e == MPLS_EmitErr(r)
    IN [name |-> router_name, ok |-> e = NoErr,
        text |-> IF e = NoErr THEN MPLS_ConfigLines(r, now) ELSE <<>>, err |-> e]

(***************************************************************************)
(* Emission of NetworkConfigGenerator: generate_router_config.             *)
(***************************************************************************)
\* __build_interface_config
NCG_BuildInterfaceConfig(iface, as_num, vrf_name) ==
    <<<<"interface", iface.name>>>>
    \o (IF vrf_name # <<>> THEN <<<<" ip vrf forwarding", vrf_name[1].name>>>> ELSE <<>>)
    \o (IF iface.ip # None THEN <<<<" ip address", iface.ip, iface.mask>>>> ELSE <<>>)
    \o (IF (iface.internal \/ iface.name = Loopback0) /\ ~iface.ce_test /\ vrf_name = <<>>
        THEN <<<<" ip ospf 1 area", as_num>>>> ELSE <<>>)
    \o (IF iface.name \in GigabitNames THEN <<<<" negotiation auto">>>> ELSE <<>>)
    \o <<<<"!">>>>

\* __find_ce_peer: the first link holding (pe, iface) whose other end is a CE
NCG_FindCePeer(pe, iface) ==
    LET IsCePeer(ep) == /\ ep.router # pe
                        /\ routers[RouterIdx(routers, ep.router)].type = "CE"
        k == FirstIdx(intent.subnets, LAMBDA link :
                 /\ \E j \in 1..Len(link) : link[j].router = pe /\ link[j].interface = iface
                 /\ \E j \in 1..Len(link) : IsCePeer(link[j]))
    IN IF k = 0 THEN [ip |-> Sentinel, as |-> 0]
       ELSE LET link == intent.subnets[k]
                ep == link[FirstIdx(link, IsCePeer)]
            IN [ip |-> IfaceOf(routers, ep).ip,
                as |-> routers[RouterIdx(routers, ep.router)].as]

\* the iBGP neighbour loop of __generate_mpbgp
NCG_NeighborLines(r) ==
    LET peers == OtherPEs(routers, r.hostname)
    IN Concat([k \in 1..Len(peers) |->
                 <<<<" neighbor", Lo0Ip(peers[k]), "remote-as", r.as>>,
                   <<" neighbor", Lo0Ip(peers[k]), "update-source Loopback0">>>>])

\* the vpnv4 loop of __generate_mpbgp
NCG_ActivateLines(r) ==
    LET peers == OtherPEs(routers, r.hostname)
    IN Concat([k \in 1..Len(peers) |->
                 <<<<"  neighbor", Lo0Ip(peers[k]), "activate">>,
                   <<"  neighbor", Lo0Ip(peers[k]), "send-community extended">>>>])

\* the per-VRF block of __generate_mpbgp
NCG_VrfBlock(r, vrf) ==
    LET peer == NCG_FindCePeer(r.hostname, vrf.associated_interfaces[1])
    IN <<<<"!">>, <<" address-family ipv4 vrf", vrf.name>>,
         <<"  neighbor", peer.ip, "remote-as", peer.as>>,
         <<"  neighbor", peer.ip, "activate">>, <<" exit-address-family">>>>

\* __generate_mpbgp
NCG_Mpbgp(r) ==
    <<<<"router bgp", r.as>>, <<" bgp router-id", Lo0Ip(r)>>>>
    \o NCG_NeighborLines(r)
    \o <<<<" !">>, <<" address-family vpnv4">>>>
    \o NCG_ActivateLines(r)
    \o <<<<" exit-address-family">>>>
    \o Concat([k \in 1..Len(r.vrfs) |-> NCG_VrfBlock(r, r.vrfs[k])])
    \o <<<<"!">>>>

\* the neighbour lookup of __generate_ce_bgp: every link naming the CE is
\* visited and every PE endpoint found overwrites pe_ip
RECURSIVE NCG_CePeIpInLink(_, _, _, _)
NCG_CePeIpInLink(router_name, link, j, pe_ip) ==
    IF j > Len(link) THEN pe_ip
    ELSE NCG_CePeIpInLink(router_name, link, j + 1,
            IF /\ link[j].router # router_name
               /\ routers[RouterIdx(routers, link[j].router)].type = "PE"
            THEN IfaceOf(routers, link[j]).ip ELSE pe_ip)

RECURSIVE NCG_CePeIp(_, _, _)
NCG_CePeIp(router_name, k, pe_ip) ==
    IF k > Len(intent.subnets) THEN pe_ip
    ELSE LET link == intent.subnets[k]
         IN NCG_CePeIp(router_name, k + 1,
               IF \E j \in 1..Len(link) : link[j].router = router_name
               THEN NCG_CePeIpInLink(router_name, link, 1, pe_ip) ELSE pe_ip)

\* the network lines of __generate_ce_bgp:
\* IPv4Interface(ip/mask).network.network_address, the AND of the two 32-bit
\* integers, computed on their 16-bit halves (a mask exceeds TLC's integers)
NCG_NetworkLine(iface) ==
    LET hi == BitAnd(iface.ip[1] * 256 + iface.ip[2],
                     iface.mask[1] * 256 + iface.mask[2], 16)
        lo == BitAnd(iface.ip[3] * 256 + iface.ip[4],
                     iface.mask[3] * 256 + iface.mask[4], 16)
    IN <<" network", <<hi \div 256, hi % 256, lo \div 256, lo % 256>>,
         "mask", iface.mask>>

\* __generate_ce_bgp
NCG_CeBgp(r) ==
    <<<<"router bgp", r.as>>,
      <<" neighbor", NCG_CePeIp(r.hostname, 1, Sentinel), "remote-as", backbone_as>>>>
    \o Concat([k \in 1..Len(r.interfaces) |->
                 IF r.interfaces[k].ip # None
                 THEN <<NCG_NetworkLine(r.interfaces[k])>> ELSE <<>>])
    \o <<<<"!">>>>

\* whether r['interfaces']['Loopback0']['ip'] raises, and what
NCG_Lo0Err(r) ==
    IF IfaceIdx(r, Loopback0) = 0
    THEN Raise("KeyError", <<Loopback0>>, "interfaces[Loopback0]")
    ELSE IF Lo0Ip(r) = None THEN Raise("KeyError", <<"ip">>, "interfaces[Loopback0][ip]")
    ELSE NoErr

\* the exception generate_router_config raises, NoErr when it returns
NCG_EmitErr(r) ==
    IF r.type = "CE" THEN NoErr
    ELSE IF NCG_Lo0Err(r) # NoErr THEN NCG_Lo0Err(r)
    ELSE IF r.type = "P" THEN NoErr
    ELSE LET peers == OtherPEs(routers, r.hostname)
             bad == FirstIdx(peers, LAMBDA x : NCG_Lo0Err(x) # NoErr)
         IN IF bad # 0 THEN NCG_Lo0Err(peers[bad])
            ELSE IF \E k \in 1..Len(r.vrfs) : r.vrfs[k].associated_interfaces = <<>>
            THEN Raise("IndexError", <<>>, "associated_interfaces[0]")
            ELSE NoErr

\* the lines of generate_router_config
NCG_ConfigLines(r, now) ==
    <<<<"!">>, <<"!">>, <<"!">>, <<"! Last configuration change at", now>>, <<"!">>,
      <<"version 15.2">>, <<"service timestamps debug datetime msec">>,
      <<"service timestamps log datetime msec">>, <<"!">>, <<"hostname", r.hostname>>,
      <<"!">>, <<"no aaa new-model">>, <<"ip cef">>, <<"!">>>>
    \o (IF r.type = "PE" THEN Concat([k \in 1..Len(r.vrfs) |-> VrfStanza(r.vrfs[k])])
        ELSE <<>>)
    \o Concat([k \in 1..Len(r.interfaces) |->
                 NCG_BuildInterfaceConfig(r.interfaces[k], r.as,
                                          AssociatedVrf(r, r.interfaces[k].name))])
    \o (IF r.type \in {"PE", "P"}
        THEN <<<<"router ospf 1">>, <<" router-id", Lo0Ip(r)>>, <<" mpls ldp autoconfig">>,
               <<"!">>>>
        ELSE <<>>)
    \o (IF r.type = "PE" THEN NCG_Mpbgp(r) ELSE IF r.type = "CE" THEN NCG_CeBgp(r) ELSE <<>>)
    \o Footer

\* NetworkConfigGenerator.generate_router_config
NCG_GenerateRouterConfig(router_name, now) ==
    LET r == routers[RouterIdx(routers, router_name)]
        e == NCG_EmitErr(r)
    IN [name |-> router_name, ok |-> e = NoErr,
        text |-> IF e = NoErr THEN NCG_ConfigLines(r, now) ELSE <<>>, err |-> e]

(***************************************************************************)
(* Emission actions.  The clock reading now is an input of every call.     *)
(***************************************************************************)
Emit(router_name, now) ==
    IF impl = "MPLSConfig" THEN MPLS_GenerateConfig(router_name, now)
    ELSE NCG_GenerateRouterConfig(router_name, now)

\* generate_all_configs: the dict comprehension over the router map; the first
\* call that raises ends it
EmitAll(now) ==
    LET outs == [k \in 1..Len(routers) |-> Emit(routers[k].hostname, now)]
        bad == FirstIdx(outs, LAMBDA o : ~o.ok)
    IN IF bad = 0
       THEN [called |-> TRUE, ok |-> TRUE, err |-> NoErr,
             configs |-> [k \in 1..Len(outs) |-> [name |-> outs[k].name,
                                                  text |-> outs[k].text]]]
       ELSE [called |-> TRUE, ok |-> FALSE, err |-> outs[bad].err, configs |-> <<>>]

\* a faulty emission: it stores 0.0.0.0 in every interface it finds without address
GenerateConfigMut(router_name) ==
    /\ phase = "ready"
    /\ RouterIdx(routers, router_name) # 0
    /\ \E now \in Times : last_out' = Emit(router_name, now)
    /\ routers' = [routers EXCEPT ![RouterIdx(routers, router_name)].interfaces =
                      [k \in 1..Len(@) |->
                          IF @[k].ip = None THEN [@[k] EXCEPT !.ip = Sentinel] ELSE @[k]]]
    /\ UNCHANGED <<project, written, app, impl, intent, run, phase, err, as_objects, backbone_as,
                   link_idx, drawn, log, all_out, first_out>>

\* one generate_config / generate_router_config call
GenerateConfig(router_name) ==
    /\ phase = "ready"
    /\ RouterIdx(routers, router_name) # 0
    /\ \E now \in Times : last_out' = Emit(router_name, now)
    /\ UNCHANGED <<project, written, app, impl, intent, run, phase, err, as_objects, backbone_as, routers,
                   link_idx, drawn, log, all_out, first_out>>

GenerateAllConfigs ==
    /\ phase = "ready"
    /\ \E now \in Times : all_out' = EmitAll(now)
    /\ UNCHANGED <<project, written, app, impl, intent, run, phase, err, as_objects, backbone_as, routers,
                   link_idx, drawn, log, last_out, first_out>>

Hostnames == {"PE1", "PE2", "PE3", "P1", "CE1", "CE2"}

\* a second compiler is constructed on the same intent object, after the
\* first one returned its configurations
Recompile ==
    /\ run = 1
    /\ phase = "ready"
    /\ all_out.called
    /\ run' = 2
    /\ first_out' = all_out
    /\ phase' = "new"
    /\ err' = NoErr
    /\ as_objects' = <<>>
    /\ backbone_as' = 0
    /\ routers' = <<>>
    /\ link_idx' = 0
    /\ drawn' = <<>>
    /\ log' = <<>>
    /\ last_out' = NoOut
    /\ all_out' = NoAll
    /\ UNCHANGED <<project, written, app, impl, intent>>

Build ==
    \/ MPLS_InitializeAs
    \/ MPLS_GetBackboneAs
    \/ MPLS_InitializeRouters
    \/ MPLS_AssignLoopbacks
    \/ MPLS_AssignLink
    \/ NCG_InitAsMap
    \/ NCG_CreateRouterMap
    \/ NCG_AssignLoopbacks
    \/ NCG_AssignLink

\* one construction, then generate_config / generate_router_config calls for
\* any routers in any order
Next ==
    \/ Build
    \/ \E h \in Hostnames : GenerateConfig(h)

Spec == Init /\ [][Next]_vars

\* construction and generate_all_configs, twice on the same intent object
NextTwice ==
    \/ Build
    \/ GenerateAllConfigs
    \/ Recompile

SpecTwice == Init /\ [][NextTwice]_vars

\* one construction, then single-router and all-router emission calls in any
\* order
NextEmit ==
    \/ Build
    \/ \E h \in Hostnames : GenerateConfig(h)
    \/ GenerateAllConfigs

SpecEmit == Init /\ [][NextEmit]_vars

(***************************************************************************)
(* The GNS3 project writer: Gns3Project (gns3_project.py) and Gns3Manager  *)
(* (gns3_manager.py).                                                      *)
(*                                                                         *)
(* The project is the sequence of entries of project-files/dynamips in the *)
(* order iterdir yields them.  An entry is [kind, hostname, rev, writable]:*)
(*   kind "file"        not a directory                                    *)
(*        "no_configs"  a router folder without a configs directory        *)
(*        "no_startup"  a configs directory without exactly one            *)
(*                      *_startup-config.cfg                               *)
(*        "unreadable"  the startup-config cannot be opened for reading    *)
(*        "router"      a folder with one readable startup-config          *)
(* hostname is the name on the first hostname line of the startup-config   *)
(* ("" when it has none), rev stands for the rest of its content, and      *)
(* writable tells whether it can be opened for writing.  A configuration   *)
(* text is [hostname, rev]; router_configs is [is_dict, items], items the  *)
(* dict as a sequence of [hostname, text] in insertion order.              *)
(***************************************************************************)
MaxRev == 2

WriterClasses == {"Gns3Project", "Gns3Manager"}

Entry(kind, hostname, writable) ==
    [kind |-> kind, hostname |-> hostname, rev |-> 0, writable |-> writable]

Projects ==
    { <<Entry("router", "PE1", TRUE), Entry("router", "CE1", TRUE)>>,
      <<Entry("router", "PE1", TRUE), Entry("router", "CE1", FALSE)>>,
      <<Entry("router", "PE1", TRUE), Entry("file", "", TRUE),
        Entry("router", "PE1", TRUE), Entry("router", "CE1", TRUE)>>,
      <<Entry("router", "PE1", TRUE), Entry("no_configs", "", TRUE)>>,
      <<Entry("router", "PE1", TRUE), Entry("no_startup", "", TRUE)>>,
      <<Entry("router", "PE1", TRUE), Entry("router", "", TRUE)>>,
      <<Entry("router", "PE1", TRUE), Entry("unreadable", "CE1", TRUE)>>,
      <<Entry("file", "", TRUE)>> }

WriterHosts == {"PE1", "CE1", "P1"}

\* every dict over WriterHosts, in every insertion order, all of its texts of
\* one revision and carrying their own key on the hostname line
RouterConfigDicts ==
    { [is_dict |-> TRUE,
       items |-> [k \in 1..Len(order) |->
                     [hostname |-> order[k],
                      text |-> [hostname |-> order[k], rev |-> r]]]] :
        order \in {o \in UNION {[1..n -> WriterHosts] : n \in 0..3} :
                      \A i, j \in 1..Len(o) : i # j => o[i] # o[j]},
        r \in 1..MaxRev }

\* what a caller may pass to write_router_config: a dict, or something else
RouterConfigInputs == RouterConfigDicts \cup {[is_dict |-> FALSE, items |-> <<>>]}

\* _extract_hostname: the first hostname line, None when there is none,
\* IOError when the file cannot be read
ExtractHostname(entry) ==
    IF entry.kind = "unreadable"
    THEN [err |-> Raise("IOError", "Error reading", "_extract_hostname"), hostname |-> None]
    ELSE [err |-> NoErr,
          hostname |-> IF entry.hostname = "" THEN None ELSE <<entry.hostname>>]

\* router_configs[hostname] = str(config_file) on the dict kept as a sequence
\* of [hostname, folder]
ExistingPut(d, hostname, i) == DictPutHost(d, [hostname |-> hostname, folder |-> i])

\* _get_existing_router_configs, from entry i on; acc is the dict built so far
RECURSIVE GetExistingRouterConfigs(_, _, _)
GetExistingRouterConfigs(folders, i, acc) ==
    IF i > Len(folders)
    THEN IF acc = <<>>
         THEN [err |-> Raise("ValueError", "No router configurations found",
                             "_get_existing_router_configs"), existing |-> <<>>]
         ELSE [err |-> NoErr, existing |-> acc]
    ELSE IF folders[i].kind = "file"
    THEN GetExistingRouterConfigs(folders, i + 1, acc)
    ELSE IF folders[i].kind = "no_configs"
    THEN [err |-> Raise("ValueError", "'configs' directory not found",
                        "_get_existing_router_configs"), existing |-> <<>>]
    ELSE IF folders[i].kind = "no_startup"
    THEN [err |-> Raise("ValueError", "Expected exactly one startup-config.cfg",
                        "_get_existing_router_configs"), existing |-> <<>>]
    ELSE LET h == ExtractHostname(folders[i])
         IN IF h.err # NoErr
            THEN [err |-> h.err, existing |-> <<>>]
            ELSE IF h.hostname = None
            THEN [err |-> Raise("ValueError", "Hostname not found",
                                "_get_existing_router_configs"), existing |-> <<>>]
            ELSE GetExistingRouterConfigs(folders, i + 1,
                                          ExistingPut(acc, h.hostname[1], i))

\* existing_configs[hostname]
ExistingPath(existing, hostname) ==
    existing[FirstIdx(existing, LAMBDA x : x.hostname = hostname)].folder

\* the routers of router_configs that the project does not hold: a list in
\* dict order in Gns3Project, a set in Gns3Manager
MissingRouters(cls, items, existing) ==
    LET found == {x.hostname : x \in Range(existing)}
    IN IF cls = "Gns3Project"
       THEN SelectSeq([k \in 1..Len(items) |-> items[k].hostname],
                      LAMBDA h : h \notin found)
       ELSE {items[k].hostname : k \in 1..Len(items)} \ found

\* "if missing_routers:" and "if missing:", the truth value of the list or set
AnyMissing(cls, missing) ==
    IF cls = "Gns3Project" THEN missing # <<>> ELSE missing # {}

\* the write loop of write_router_config, from item k on: open(path, "w") and
\* write, or Path.write_text; the first failure ends it with IOError and
\* leaves the files written so far overwritten
RECURSIVE WriteLoop(_, _, _, _)
WriteLoop(folders, existing, items, k) ==
    IF k > Len(items)
    THEN [err |-> NoErr, folders |-> folders]
    ELSE LET i == ExistingPath(existing, items[k].hostname)
         IN IF ~folders[i].writable
            THEN [err |-> Raise("IOError", items[k].hostname, "write_router_config"),
                  folders |-> folders]
            ELSE WriteLoop([folders EXCEPT ![i].hostname = items[k].text.hostname,
                                           ![i].rev = items[k].text.rev],
                           existing, items, k + 1)

\* a faulty writer: it overwrites the routers it finds, then reports the
\* missing ones
WriteRouterConfigMut(cls, folders, router_configs) ==
    IF ~router_configs.is_dict
    THEN [err |-> Raise("TypeError", "router_configs must be a dict",
                        "write_router_config"), folders |-> folders]
    ELSE LET scan == GetExistingRouterConfigs(folders, 1, <<>>)
         IN IF scan.err # NoErr
            THEN [err |-> scan.err, folders |-> folders]
            ELSE LET missing == MissingRouters(cls, router_configs.items, scan.existing)
                     found == SelectSeq(router_configs.items,
                                  LAMBDA x : x.hostname \in
                                      {e.hostname : e \in Range(scan.existing)})
                     done == WriteLoop(folders, scan.existing, found, 1)
                 IN IF done.err = NoErr /\ AnyMissing(cls, missing)
                    THEN [err |-> Raise("ValueError", missing, "write_router_config"),
                          folders |-> done.folders]
                    ELSE done

\* write_router_config of either class: the type check, the scan, the missing
\* check, then the write loop
WriteRouterConfig(cls, folders, router_configs) ==
    IF ~router_configs.is_dict
    THEN [err |-> Raise("TypeError", "router_configs must be a dict",
                        "write_router_config"), folders |-> folders]
    ELSE LET scan == GetExistingRouterConfigs(folders, 1, <<>>)
         IN IF scan.err # NoErr
            THEN [err |-> scan.err, folders |-> folders]
            ELSE LET missing == MissingRouters(cls, router_configs.items, scan.existing)
                 IN IF AnyMissing(cls, missing)
                    THEN [err |-> Raise("ValueError", missing, "write_router_config"),
                          folders |-> folders]
                    ELSE WriteLoop(folders, scan.existing, router_configs.items, 1)

\* one write_router_config call on the project
WriteRouterConfigCall(cls, router_configs) ==
    LET res == WriteRouterConfig(cls, project, router_configs)
    IN /\ project' = res.folders
       /\ written' = [called |-> TRUE, cls |-> cls, router_configs |-> router_configs,
                      before |-> project, err |-> res.err]
       /\ UNCHANGED <<impl, intent, run, phase, err, as_objects, backbone_as, routers,
                      link_idx, drawn, log, last_out, all_out, first_out, app>>

\* a project on disk, no compiler state of its own
InitWriter ==
    /\ impl = "MPLSConfig"
    /\ intent = None
    /\ run = 1
    /\ phase = "new"
    /\ err = NoErr
    /\ as_objects = <<>>
    /\ backbone_as = 0
    /\ routers = <<>>
    /\ link_idx = 0
    /\ drawn = <<>>
    /\ log = <<>>
    /\ last_out = NoOut
    /\ all_out = NoAll
    /\ first_out = NoAll
    /\ project \in Projects
    /\ written = NoWrite
    /\ app = NoApp

\* write_router_config calls of either class, with any input, in any order
NextWriter ==
    \E cls \in WriterClasses, router_configs \in RouterConfigInputs :
        WriteRouterConfigCall(cls, router_configs)

SpecWriter == InitWriter /\ [][NextWriter]_vars

(***************************************************************************)
(* ConfigGeneratorApp (main.py).  app holds the two paths, the two labels, *)
(* the state of the Generate button, intent_file and router_configs, and,  *)
(* for observation, the title of the latest message box and the name of    *)
(* the latest handler that ran.  One action per event handler.             *)
(***************************************************************************)
\* what the file dialog can return: "" when it is cancelled
JsonFiles == {"intent.json", "broken.json"}

\* what the directory dialog can return: "lab" holds project-files/dynamips
\* with the folders of project, "bare" has no dynamips directory
ProjectDirs == {"lab", "bare"}

Cancelled == ""

\* check_ready_to_generate
CheckReadyToGenerateMut(a) ==
    [a EXCEPT !.generate_button =
        IF a.json_file_path # None \/ a.project_path # None THEN "normal" ELSE "disabled"]

CheckReadyToGenerate(a) ==
    [a EXCEPT !.generate_button =
        IF a.json_file_path # None /\ a.project_path # None THEN "normal" ELSE "disabled"]

\* reset
ResetApp(a) ==
    [a EXCEPT !.json_file_label = "No JSON file selected",
              !.project_path_label = "No project path selected",
              !.generate_button = "disabled",
              !.json_file_path = None,
              !.project_path = None,
              !.intent_file = None,
              !.router_configs = <<>>]

AppFrame ==
    UNCHANGED <<impl, intent, run, phase, err, as_objects, backbone_as, routers,
                link_idx, drawn, log, last_out, all_out, first_out>>

\* select_json_file, file_path being what the dialog returned
SelectJsonFile(file_path) ==
    /\ app' = IF file_path # Cancelled
              THEN [CheckReadyToGenerate([app EXCEPT !.json_file_label = file_path,
                                                     !.json_file_path = <<file_path>>])
                      EXCEPT !.event = "select_json_file"]
              ELSE [ResetApp(app) EXCEPT !.event = "cancel_json_file"]
    /\ UNCHANGED <<project, written>>
    /\ AppFrame

\* select_project_path, path being what the dialog returned
SelectProjectPath(path) ==
    /\ app' = IF path # Cancelled
              THEN [CheckReadyToGenerate([app EXCEPT !.project_path_label = path,
                                                     !.project_path = <<path>>])
                      EXCEPT !.event = "select_project_path"]
              ELSE [ResetApp(app) EXCEPT !.event = "cancel_project_path"]
    /\ UNCHANGED <<project, written>>
    /\ AppFrame

\* the reset handler called on its own
Reset ==
    /\ app' = [ResetApp(app) EXCEPT !.event = "reset"]
    /\ UNCHANGED <<project, written>>
    /\ AppFrame

\* what MPLSConfig(intent).generate_all_configs() hands to the writer: an
\* exception of the compiler, or the dict of configurations
CompileErrors == {"KeyError", "ValueError", "StopIteration"}

CompileOutcomes ==
    {[err |-> Raise(t, <<>>, "MPLSConfig"), configs |-> <<>>] : t \in CompileErrors}
    \cup {[err |-> NoErr, configs |-> d] : d \in RouterConfigDicts}

\* the title of the message box of each except clause, "Success" without one
MessageTitle(e) ==
    IF e = NoErr THEN "Success"
    ELSE IF e.type = "ValidationError" THEN "Validation Error"
    ELSE IF e.type = "ValueError" THEN "Value Error"
    ELSE IF e.type = "IOError" THEN "IO Error"
    ELSE "Error"

\* the try block of generate_configs: open and load the JSON file, construct
\* Gns3Project, compile, write; wrote tells whether write_router_config ran
GenerateTry(a, folders, compiled) ==
    IF a.json_file_path = None
    THEN [err |-> Raise("TypeError", "open(None)", "generate_configs"),
          folders |-> folders, wrote |-> FALSE]
    ELSE IF a.json_file_path = <<"broken.json">>
    THEN [err |-> Raise("ValueError", "JSONDecodeError", "generate_configs"),
          folders |-> folders, wrote |-> FALSE]
    ELSE IF a.project_path = None
    THEN [err |-> Raise("TypeError", "Path(None)", "Gns3Project.__init__"),
          folders |-> folders, wrote |-> FALSE]
    ELSE IF a.project_path # <<"lab">>
    THEN [err |-> Raise("ValueError", "Dynamips path does not exist",
                        "Gns3Project.__init__"),
          folders |-> folders, wrote |-> FALSE]
    ELSE IF compiled.err # NoErr
    THEN [err |-> compiled.err, folders |-> folders, wrote |-> FALSE]
    ELSE LET res == WriteRouterConfig("Gns3Project", folders, compiled.configs)
         IN [err |-> res.err, folders |-> res.folders, wrote |-> TRUE]

\* generate_configs: the try block, the message box of the outcome, and the
\* reset of the finally clause
GenerateConfigs ==
    /\ \E compiled \in CompileOutcomes :
          LET res == GenerateTry(app, project, compiled)
          IN /\ project' = res.folders
             /\ written' = IF res.wrote
                           THEN [called |-> TRUE, cls |-> "Gns3Project",
                                 router_configs |-> compiled.configs,
                                 before |-> project, err |-> res.err]
                           ELSE written
             /\ app' = [ResetApp(app) EXCEPT !.message = MessageTitle(res.err),
                                             !.event = "generate_configs"]
    /\ AppFrame

\* the application window on a project, nothing selected yet
InitApp ==
    /\ impl = "MPLSConfig"
    /\ intent = None
    /\ run = 1
    /\ phase = "new"
    /\ err = NoErr
    /\ as_objects = <<>>
    /\ backbone_as = 0
    /\ routers = <<>>
    /\ link_idx = 0
    /\ drawn = <<>>
    /\ log = <<>>
    /\ last_out = NoOut
    /\ all_out = NoAll
    /\ first_out = NoAll
    /\ project \in Projects
    /\ written = NoWrite
    /\ app = NoApp

\* any sequence of events of the window
NextApp ==
    \/ \E file_path \in JsonFiles \cup {Cancelled} : SelectJsonFile(file_path)
    \/ \E path \in ProjectDirs \cup {Cancelled} : SelectProjectPath(path)
    \/ GenerateConfigs
    \/ Reset

SpecApp == InitApp /\ [][NextApp]_vars

(***************************************************************************)
(* Properties.                                                             *)
(***************************************************************************)
\* every (router, interface) slot of the router map
IfaceSlots ==
    UNION {{<<k, j>> : j \in 1..Len(routers[k].interfaces)} : k \in 1..Len(routers)}

IpAt(x) == routers[x[1]].interfaces[x[2]].ip

AddressesDistinct ==
    \A x, y \in IfaceSlots : (x # y /\ IpAt(x) # None) => IpAt(x) # IpAt(y)

\* the address ranges the allocator of the chosen compiler draws from: the
\* loopback and physical pool of every AS and, in NetworkConfigGenerator, the
\* private network of every CE
DeclaredRanges ==
    {[kind |-> "loopback", as |-> a.as_number, host |-> "", net |-> a.loopback] :
        a \in {b \in Range(intent.as) : b.loopback # NoRange}}
    \cup {[kind |-> "physical", as |-> a.as_number, host |-> "", net |-> a.physical] :
        a \in {b \in Range(intent.as) : b.physical # NoRange}}
    \cup (IF impl = "NetworkConfigGenerator"
          THEN {[kind |-> "private", as |-> r.as_number, host |-> r.hostname,
                 net |-> r.private_network] :
                   r \in {c \in Range(intent.ce_routers) : c.private_network # NoRange}}
          ELSE {})

Overlap(n, m) == NetLo(n) <= NetHi(m) /\ NetLo(m) <= NetHi(n)

RangesDisjoint ==
    \A p, q \in DeclaredRanges : p # q => ~Overlap(p.net, q.net)

\* C1, as the specification states it: after a successful compile no two
\* interfaces of the model hold the same IP address.
C1_Original == phase = "ready" => AddressesDistinct

\* C1, amended: after a successful compile of an intent whose declared address
\* ranges are pairwise disjoint, no two interfaces hold the same IP address.
C1_NoSharedAddress == (phase = "ready" /\ RangesDisjoint) => AddressesDistinct

\* a compile that drew two /24s and wrote at least six addresses from disjoint ranges
C1_Witness ==
    /\ phase = "ready"
    /\ RangesDisjoint
    /\ Len(drawn) = 2
    /\ Cardinality({x \in IfaceSlots : IpAt(x) # None}) >= 6

\* C2: after a successful compile the first endpoint of every link holds the
\* first host and the second endpoint the second host of the /24 drawn for
\* that link, both with mask 255.255.255.0, and the two addresses differ.
C2_LinkEndpoints ==
    phase = "ready" =>
        \A k \in 1..Len(intent.subnets) :
            LET link == intent.subnets[k]
                a == IfaceOf(routers, link[1])
                b == IfaceOf(routers, link[2])
            IN /\ a.ip = Dotted(drawn[k].net + 1)
               /\ b.ip = Dotted(drawn[k].net + 2)
               /\ a.mask = Mask24
               /\ b.mask = Mask24
               /\ a.ip # b.ip

\* the statements that draw from a pool
LoopbackDraws == {"next(loopback_iterator)", "next(loopback_iter)"}
PhysicalDraws == {"next(physical_iterator)", "next(phys_iter)"}

\* the cursors of the chosen compiler, per AS of the intent
Cursors ==
    IF impl = "MPLSConfig"
    THEN [i \in 1..Len(as_objects) |->
            [as |-> as_objects[i].as_number,
             loopback |-> as_objects[i].loopback, physical |-> as_objects[i].physical,
             lb |-> as_objects[i].loopback_iterator, ph |-> as_objects[i].physical_iterator]]
    ELSE [i \in 1..Len(intent.as) |->
            [as |-> intent.as[i].as_number,
             loopback |-> intent.as[i].loopback, physical |-> intent.as[i].physical,
             lb |-> intent.as[i].loopback_iter, ph |-> intent.as[i].phys_iter]]

\* the AS whose physical pool the link being processed draws from
PoolAsOfCurrentLink ==
    LET link == intent.subnets[link_idx + 1]
    IN IF AnyCE(routers, link) = "CE"
       THEN routers[RouterIdx(routers, FirstCE(routers, link).router)].as
       ELSE backbone_as

\* the constructor stopped at a draw from a pool whose cursor stands at its end
ExhaustedDraw ==
    /\ phase = "failed"
    /\ \/ /\ err.site \in LoopbackDraws
          /\ \E i \in 1..Len(Cursors) :
                /\ Cursors[i].lb.st = "live"
                /\ Cursors[i].lb.pos = HostCount(Cursors[i].loopback)
       \/ /\ err.site \in PhysicalDraws
          /\ \E i \in 1..Len(Cursors) :
                /\ Cursors[i].as = PoolAsOfCurrentLink
                /\ Cursors[i].ph.st = "live"
                /\ Cursors[i].physical.len <= PhysicalPrefix
                /\ Cursors[i].ph.pos = SubnetCount(Cursors[i].physical)

\* an error that identifies an AS and a pool type
IdentifiesPool(e) ==
    \E i \in 1..Len(intent.as), kind \in {"loopback", "physical"} :
        e.arg = <<intent.as[i].as_number, kind>>

\* C3: a draw from an exhausted loopback or physical pool ends the compile
\* with an AddressPoolExhausted error that identifies the AS and the pool
\* type, and no configuration is returned.
C3_PoolExhausted ==
    ExhaustedDraw =>
        /\ err.type = "AddressPoolExhausted"
        /\ IdentifiesPool(err)
        /\ last_out = NoOut
        /\ all_out = NoAll

\* the hostnames the intent declares as CE routers
CeIdx(hostname) == FirstIdx(intent.ce_routers, LAMBDA r : r.hostname = hostname)

\* link k of the intent has a CE endpoint and the AS of its first CE endpoint
\* declares no physical pool
CeLinkWithoutPool(k) ==
    LET link == intent.subnets[k]
        j == FirstIdx(link, LAMBDA ep : CeIdx(ep.router) # 0)
    IN /\ j # 0
       /\ \E a \in Range(intent.as) :
             /\ a.as_number = intent.ce_routers[CeIdx(link[j].router)].as_number
             /\ a.physical = NoRange

\* the compile stopped because of the missing physical pool of such a link
MissingPoolFailure ==
    /\ phase = "failed"
    /\ \/ /\ impl = "MPLSConfig"
          /\ err.site \in PhysicalDraws
          /\ CeLinkWithoutPool(link_idx + 1)
       \/ /\ impl = "NetworkConfigGenerator"
          /\ err.site = "ipv4_ranges[physical]"
          /\ \E k \in 1..Len(intent.subnets) : CeLinkWithoutPool(k)

\* the number of /24s drawn from the backbone's physical pool so far
BackboneDraws == Cardinality({k \in 1..Len(drawn) : drawn[k].as = backbone_as})

\* C4: a link with a CE endpoint whose AS declares no physical pool makes the
\* compile fail with AddressPoolExhausted, and the backbone's physical cursor
\* is not advanced for that link.
C4_MissingCustomerPool ==
    /\ (\E k \in 1..Len(intent.subnets) : CeLinkWithoutPool(k)) => phase # "ready"
    /\ MissingPoolFailure =>
          /\ err.type = "AddressPoolExhausted"
          /\ \A i \in 1..Len(Cursors) :
                (Cursors[i].as = backbone_as /\ Cursors[i].ph.st = "live")
                    => Cursors[i].ph.pos = BackboneDraws

NoBackbone == \A i \in 1..Len(intent.as) : ~intent.as[i].backbone

\* an error of the backbone lookup that says what is missing
DescriptiveMissingBackbone(e) ==
    /\ e.type \in {"MissingBackboneAS", "ValueError"}
    /\ e.arg # <<>>

\* C5: an intent in which no AS is flagged backbone fails to compile with a
\* descriptive missing-backbone error before any router is built, in both
\* compilers.
C5_MissingBackbone ==
    NoBackbone =>
        /\ phase # "ready"
        /\ routers = <<>>
        /\ phase = "failed" => DescriptiveMissingBackbone(err)

\* the interfaces a router intent declares, {} for an undeclared router
DeclaredIfaces(hostname) ==
    UNION {Range(r.interfaces) :
             r \in {x \in Range(intent.pe_routers) \cup Range(intent.p_routers)
                            \cup Range(intent.ce_routers) : x.hostname = hostname}}

\* a link endpoint or a VRF names an interface its router does not declare
UnknownLinkReference ==
    \E k \in 1..Len(intent.subnets) : \E j \in 1..Len(intent.subnets[k]) :
        intent.subnets[k][j].interface \notin DeclaredIfaces(intent.subnets[k][j].router)

UnknownVrfReference ==
    \E r \in Range(intent.pe_routers) : \E v \in Range(r.vrfs) :
        \E n \in Range(v.associated_interfaces) : n \notin Range(r.interfaces)

\* C6: an intent with a link or a VRF that names an unknown router or
\* interface never compiles: it does not reach a built model and no
\* configuration is produced from it.
C6_UnknownReference ==
    (UnknownLinkReference \/ UnknownVrfReference) =>
        /\ phase # "ready"
        /\ last_out = NoOut
        /\ all_out = NoAll

\* the CE peer the specification names for a PE's VRF: the CE at the other
\* end of the first link that contains (pe, associated_interfaces[0]),
\* otherwise the sentinel 0.0.0.0 with AS 0
ExpectedCePeer(pe, vrf) ==
    LET Other(link) == FirstIdx(link, LAMBDA ep :
                          /\ ep.router # pe
                          /\ routers[RouterIdx(routers, ep.router)].type = "CE")
        k == FirstIdx(intent.subnets, LAMBDA link :
                 /\ Ep(pe, vrf.associated_interfaces[1]) \in Range(link)
                 /\ Other(link) # 0)
    IN IF k = 0 THEN <<Sentinel, 0>>
       ELSE LET ep == intent.subnets[k][Other(intent.subnets[k])]
            IN <<IfaceOf(routers, ep).ip, routers[RouterIdx(routers, ep.router)].as>>

\* the latest emission returned the text of a PE router
EmittedPE ==
    /\ last_out.ok
    /\ routers[RouterIdx(routers, last_out.name)].type = "PE"

\* C7: in an emitted PE configuration the neighbor address and remote-as of
\* every VRF block are those of the CE at the other end of the link that
\* contains (PE, first associated interface), or 0.0.0.0 and 0 when there is
\* no such link or its other end is not a CE.
C7_VrfNeighbor ==
    EmittedPE =>
        \A v \in Range(routers[RouterIdx(routers, last_out.name)].vrfs) :
            LET p == FirstIdx(last_out.text,
                              LAMBDA l : l = <<" address-family ipv4 vrf", v.name>>)
                peer == ExpectedCePeer(last_out.name, v)
            IN /\ p # 0
               /\ last_out.text[p + 1] = <<"  neighbor", peer[1], "remote-as", peer[2]>>

\* everything the constructor built: the intent with NetworkConfigGenerator's
\* cursors, MPLSConfig's AS objects with theirs, and the router map
ModelState == <<intent, as_objects, backbone_as, routers, link_idx, drawn, log>>

\* a text without its "Last configuration change" line
StripTimestamp(text) == SelectSeq(text, LAMBDA l : l[1] # "! Last configuration change at")

StripAll(configs) ==
    [k \in 1..Len(configs) |->
        [name |-> configs[k].name, text |-> StripTimestamp(configs[k].text)]]

\* C8: an emission call leaves the whole model unchanged (interfaces, VRF
\* lists, links, the cursors of every AS), and the text a call returned for a
\* router is, timestamp aside, the text any other call for that router
\* returns, whatever was emitted before it.
C8_EmissionReadOnly ==
    /\ [][(phase = "ready" /\ phase' = "ready") => ModelState' = ModelState]_vars
    /\ [](phase = "ready" =>
            /\ last_out.ok =>
                  \A now \in Times :
                     StripTimestamp(last_out.text)
                        = StripTimestamp(Emit(last_out.name, now).text)
            /\ (all_out.called /\ all_out.ok) =>
                  \A k \in 1..Len(all_out.configs), now \in Times :
                     StripTimestamp(all_out.configs[k].text)
                        = StripTimestamp(Emit(all_out.configs[k].name, now).text))

\* a CE text was returned after generate_all_configs had returned all texts
C8_Witness ==
    /\ phase = "ready"
    /\ Len(intent.subnets) = 2
    /\ all_out.called /\ all_out.ok
    /\ last_out.ok /\ last_out.name = "CE1"
    /\ \E k \in 1..Len(all_out.configs) :
          /\ all_out.configs[k].name = "CE1"
          /\ all_out.configs[k].text # last_out.text

\* C9: a second compiler constructed on the same intent object completes like
\* the first, and generate_all_configs returns for every router the text of
\* the first compile, the timestamp line aside.
C9_Idempotent ==
    run = 2 =>
        /\ phase # "failed"
        /\ all_out.called =>
              /\ all_out.ok = first_out.ok
              /\ all_out.err = first_out.err
              /\ StripAll(all_out.configs) = StripAll(first_out.configs)

\* the second compile of NetworkConfigGenerator returned its texts at another
\* clock reading, after the first had advanced the cursors kept in the intent
C9_Witness ==
    /\ run = 2
    /\ impl = "NetworkConfigGenerator"
    /\ all_out.called /\ all_out.ok
    /\ first_out.ok
    /\ all_out.configs # first_out.configs
    /\ Len(drawn) = 2
    /\ Len(log) >= 6

\* C10: in an emitted PE configuration with M other PEs and N VRFs the router
\* bgp stanza is: the header and router-id, one (remote-as, update-source
\* Loopback0) pair per other PE in router-map order addressed by that PE's
\* Loopback0 address, the vpnv4 block with one (activate, send-community
\* extended) pair per other PE in the same order, then N address-family ipv4
\* vrf blocks in declared order, each with one neighbor address; nothing else.
C10_BgpStanza ==
    EmittedPE =>
        LET text == last_out.text
            r == routers[RouterIdx(routers, last_out.name)]
            others == OtherPEs(routers, last_out.name)
            M == Len(others)
            N == Len(r.vrfs)
            s == FirstIdx(text, LAMBDA l : l[1] = "router bgp")
            v == s + 3 + 2 * M
            b == s + 4 + 4 * M
        IN /\ s # 0
           /\ Len(text) = b + 5 * N + 1 + Len(Footer)
           /\ text[s] = <<"router bgp", r.as>>
           /\ text[s + 1] = <<" bgp router-id", Lo0Ip(r)>>
           /\ \A j \in 1..M :
                 /\ text[s + 2 * j] = <<" neighbor", Lo0Ip(others[j]), "remote-as", r.as>>
                 /\ text[s + 2 * j + 1]
                       = <<" neighbor", Lo0Ip(others[j]), "update-source Loopback0">>
           /\ text[v - 1] = <<" !">>
           /\ text[v] = <<" address-family vpnv4">>
           /\ \A j \in 1..M :
                 /\ text[v + 2 * j - 1] = <<"  neighbor", Lo0Ip(others[j]), "activate">>
                 /\ text[v + 2 * j]
                       = <<"  neighbor", Lo0Ip(others[j]), "send-community extended">>
           /\ text[b] = <<" exit-address-family">>
           /\ \A k \in 1..N :
                 LET c == b + 5 * (k - 1)
                 IN /\ text[c + 1] = <<"!">>
                    /\ text[c + 2] = <<" address-family ipv4 vrf", r.vrfs[k].name>>
                    /\ Len(text[c + 3]) = 4
                    /\ text[c + 3][1] = "  neighbor"
                    /\ text[c + 3][3] = "remote-as"
                    /\ text[c + 4] = <<"  neighbor", text[c + 3][2], "activate">>
                    /\ text[c + 5] = <<" exit-address-family">>
           /\ text[b + 5 * N + 1] = <<"!">>
           /\ SubSeq(text, b + 5 * N + 2, Len(text)) = Footer

\* PE1 was emitted among three PEs, with two VRFs and its links assigned
C10_Witness ==
    /\ EmittedPE
    /\ last_out.name = "PE1"
    /\ Len(OtherPEs(routers, "PE1")) = 2
    /\ Len(routers[RouterIdx(routers, "PE1")].vrfs) = 2
    /\ Len(drawn) = 2

\* the pool the specification names for link k, read from the intent alone:
\* the AS of the link's first CE endpoint, the backbone AS when it has none
ExpectedPoolAs(k) ==
    LET link == intent.subnets[k]
        j == FirstIdx(link, LAMBDA ep : CeIdx(ep.router) # 0)
    IN IF j # 0 THEN intent.ce_routers[CeIdx(link[j].router)].as_number
       ELSE intent.as[FirstIdx(intent.as, LAMBDA a : a.backbone)].as_number

\* the number of /24s drawn from the physical pool of AS asn by the first n links
DrawsFrom(asn, n) == Cardinality({j \in 1..n : drawn[j].as = asn})

PhysicalRangeOf(asn) == intent.as[AsIdx(intent.as, asn)].physical

\* C11: every processed link drew one /24 from one pool, the pool of its CE
\* endpoint's AS or the backbone's when it has no CE endpoint; the k-th draw
\* from a pool is the k-th /24 of that pool; the physical cursor of every AS
\* counts exactly the draws made from its pool, and a link step leaves every
\* loopback cursor unchanged.
C11_OnePoolPerLink ==
    /\ [](/\ Len(drawn) \in {link_idx, link_idx + 1}
          /\ \A k \in 1..Len(drawn) :
                /\ drawn[k].as = ExpectedPoolAs(k)
                /\ drawn[k].net = PhysicalRangeOf(drawn[k].as).base
                                     + 256 * DrawsFrom(drawn[k].as, k - 1)
          /\ \A i \in 1..Len(Cursors) :
                Cursors[i].ph.st = "live"
                   => Cursors[i].ph.pos = DrawsFrom(Cursors[i].as, Len(drawn)))
    /\ [][phase = "links" =>
             \A i \in 1..Len(Cursors) : Cursors[i].lb' = Cursors[i].lb]_vars

\* two links drew from the same pool, the second one its second /24, after
\* loopbacks had been assigned
C11_Witness ==
    /\ phase = "ready"
    /\ Len(drawn) = 2
    /\ drawn[1].as = drawn[2].as
    /\ drawn[1].as # backbone_as
    /\ drawn[2].net = drawn[1].net + 256
    /\ \E i \in 1..Len(Cursors) : Cursors[i].lb.st = "live" /\ Cursors[i].lb.pos > 0

\* C12: after a successful compile every link endpoint on a PE or P router is
\* internal and MPLS-enabled, also when the other end of its link is a CE,
\* and every link endpoint on a CE router has both flags false.
C12_EndpointFlags ==
    phase = "ready" =>
        \A k \in 1..Len(intent.subnets) : \A j \in 1..Len(intent.subnets[k]) :
            LET ep == intent.subnets[k][j]
                type == routers[RouterIdx(routers, ep.router)].type
                iface == IfaceOf(routers, ep)
            IN IF type = "CE" THEN ~iface.internal /\ ~iface.mpls
               ELSE iface.internal /\ iface.mpls

\* the latest emission returned the text of a CE router
EmittedCE ==
    /\ last_out.ok
    /\ routers[RouterIdx(routers, last_out.name)].type = "CE"

\* the upstream neighbour the specification names for a CE: the address of the
\* other endpoint of the first link that contains the CE, 0.0.0.0 without one
ExpectedPeIp(ce) ==
    LET k == FirstIdx(intent.subnets, LAMBDA link : \E j \in 1..Len(link) : link[j].router = ce)
    IN IF k = 0 THEN Sentinel
       ELSE LET link == intent.subnets[k]
                j == FirstIdx(link, LAMBDA ep : ep.router # ce)
            IN IfaceOf(routers, link[j]).ip

\* C13: the BGP stanza of an emitted CE has a single neighbor line, and its
\* address is that of the PE-side endpoint of the first link, in declared
\* order, that contains the CE; 0.0.0.0 when no link contains the CE.
C13_CeFirstLink ==
    EmittedCE =>
        LET text == last_out.text
            s == FirstIdx(text, LAMBDA l : l[1] = "router bgp")
        IN /\ s # 0
           /\ text[s + 1] = <<" neighbor", ExpectedPeIp(last_out.name), "remote-as", backbone_as>>
           /\ Cardinality({i \in 1..Len(text) : text[i][1] = " neighbor"}) = 1

\* the loopback range the intent declares for AS asn
LoopbackRangeOf(asn) == intent.as[AsIdx(intent.as, asn)].loopback

\* router i of the router map has a Loopback0 and its AS declares a loopback pool
DrawsLoopback(i) ==
    /\ IfaceIdx(routers[i], Loopback0) # 0
    /\ AsIdx(intent.as, routers[i].as) # 0
    /\ LoopbackRangeOf(routers[i].as) # NoRange

\* the number of routers before router i that draw from the same loopback pool
LoopbackRank(i) ==
    Cardinality({j \in 1..(i - 1) : DrawsLoopback(j) /\ routers[j].as = routers[i].as})

\* C14: once the loopback pass is over, every router with a Loopback0 whose AS
\* declares a loopback pool, backbone or not, holds on it the host address of
\* that pool at its rank in router-map order (network address excluded), with
\* mask 255.255.255.255, and no physical write precedes a loopback write.
C14_LoopbackPass ==
    phase \in {"links", "ready"} =>
        /\ \A i \in 1..Len(routers) :
              DrawsLoopback(i) =>
                 LET lo == routers[i].interfaces[IfaceIdx(routers[i], Loopback0)]
                     net == LoopbackRangeOf(routers[i].as)
                 IN /\ lo.ip = Dotted(net.base + 1 + LoopbackRank(i))
                    /\ net.base + 1 + LoopbackRank(i) < NetHi(net)
                    /\ lo.mask = Mask32
        /\ \A a, b \in 1..Len(log) :
              (log[a].pass = "physical" /\ log[b].pass = "loopback") => b < a

\* C15: over one allocation run no interface is written with an address
\* twice, neither by both passes nor by two links.
C15_WrittenOnce ==
    \A a, b \in 1..Len(log) :
        a # b => <<log[a].router, log[a].interface>> # <<log[b].router, log[b].interface>>

\* the lines of the stanza that starts at line p of a text, up to its "!"
StanzaLines(text, p) ==
    LET q == CHOOSE e \in (p + 1)..Len(text) :
                 /\ text[e] = <<"!">>
                 /\ \A m \in (p + 1)..(e - 1) : text[m] # <<"!">>
    IN {text[m] : m \in p..q}

\* C16: in the text emitted for any router, the stanza of an interface holds
\* the line "ip ospf 1 area <AS>" exactly when the interface is internal or
\* named Loopback0, is no CE-test loopback and is not VRF-forwarded, and no
\* stanza holds both "ip vrf forwarding" and "ip ospf 1 area".
C16_OspfLine ==
    last_out.ok =>
        LET r == routers[RouterIdx(routers, last_out.name)]
        IN \A k \in 1..Len(r.interfaces) :
              LET iface == r.interfaces[k]
                  p == FirstIdx(last_out.text, LAMBDA l : l = <<"interface", iface.name>>)
                  stanza == StanzaLines(last_out.text, p)
                  ospf == <<" ip ospf 1 area", r.as>> \in stanza
                  forwarded == \E l \in stanza : l[1] = " ip vrf forwarding"
              IN /\ p # 0
                 /\ ospf <=> /\ iface.internal \/ iface.name = Loopback0
                             /\ ~iface.ce_test
                             /\ AssociatedVrf(r, iface.name) = <<>>
                 /\ ~(ospf /\ forwarded)

\* the router-id the specification names: Loopback0's address, 0.0.0.0 when
\* the router has no Loopback0 or its Loopback0 has no address
ExpectedRouterId(r) ==
    IF IfaceIdx(r, Loopback0) = 0 THEN Sentinel
    ELSE IF Lo0Ip(r) = None THEN Sentinel
    ELSE Lo0Ip(r)

\* C17: a generate_config / generate_router_config call for a PE or P router
\* returns a text, and the text has exactly one "router ospf 1" line, followed
\* by the router-id of Loopback0 (0.0.0.0 without one) and "mpls ldp
\* autoconfig".
C17_RouterOspf ==
    (last_out # NoOut /\ routers[RouterIdx(routers, last_out.name)].type \in {"PE", "P"}) =>
        LET text == last_out.text
            s == FirstIdx(text, LAMBDA l : l = <<"router ospf 1">>)
        IN /\ last_out.ok
           /\ Cardinality({i \in 1..Len(text) : text[i] = <<"router ospf 1">>}) = 1
           /\ text[s + 1]
                 = <<" router-id", ExpectedRouterId(routers[RouterIdx(routers, last_out.name)])>>
           /\ text[s + 2] = <<" mpls ldp autoconfig">>

\* the number of elements of a sequence equal to x
Count(seq, x) == Cardinality({i \in 1..Len(seq) : seq[i] = x})

\* the network line the specification names for an addressed interface: the
\* octet-wise AND of its address and mask, and the mask
ExpectedNetworkLine(iface) ==
    <<" network", [k \in 1..4 |-> BitAnd(iface.ip[k], iface.mask[k], 8)], "mask", iface.mask>>

\* C18: the BGP stanza of an emitted CE holds exactly one network line for
\* each interface that has an address and is no CE-test loopback, with the
\* octet-wise AND of address and mask, and no other network line.
C18_CeNetworks ==
    EmittedCE =>
        LET r == routers[RouterIdx(routers, last_out.name)]
            got == SelectSeq(last_out.text, LAMBDA l : l[1] = " network")
            announced == SelectSeq(r.interfaces, LAMBDA i : i.ip # None /\ ~i.ce_test)
            want == [k \in 1..Len(announced) |-> ExpectedNetworkLine(announced[k])]
        IN \A l \in Range(got) \cup Range(want) : Count(got, l) = Count(want, l)

\* the hostnames carried by the startup-config files of a project
FileHostnames(folders) ==
    {folders[i].hostname : i \in {j \in 1..Len(folders) :
        folders[j].kind \in {"router", "unreadable"} /\ folders[j].hostname # ""}}

\* the hostnames of the latest call's router_configs without a matching file in
\* the project as it was before the call
MissingBefore ==
    {written.router_configs.items[k].hostname :
        k \in 1..Len(written.router_configs.items)} \ FileHostnames(written.before)

UnreadableBefore == \E i \in 1..Len(written.before) : written.before[i].kind = "unreadable"

\* C19 as stated: a write_router_config call whose router_configs names a
\* hostname without a matching startup-config file raises ValueError and leaves
\* every file as it was; files change only when every hostname is found.
C19_Original ==
    written.called /\ written.router_configs.is_dict =>
        /\ MissingBefore # {} => written.err.type = "ValueError" /\ project = written.before
        /\ project # written.before => MissingBefore = {}

\* C19: a write_router_config call whose router_configs names a hostname
\* without a matching startup-config file raises before it writes anything and
\* every file keeps its content; the error is a ValueError, or the IOError of
\* the scan when a startup-config cannot be read; files are overwritten only
\* when every hostname is found.
C19_MissingWritesNothing ==
    written.called /\ written.router_configs.is_dict =>
        /\ MissingBefore # {} =>
              /\ project = written.before
              /\ \/ written.err.type = "ValueError"
                 \/ written.err.type = "IOError" /\ UnreadableBefore
        /\ MissingBefore # {} /\ ~UnreadableBefore => written.err.type = "ValueError"
        /\ project # written.before => MissingBefore = {}

\* a call naming a missing router together with a router whose writable file
\* holds another revision ended with the missing-routers error
C19_Witness ==
    /\ written.called
    /\ written.err.type = "ValueError"
    /\ written.err.site = "write_router_config"
    /\ MissingBefore # {}
    /\ \E k \in 1..Len(written.router_configs.items), i \in 1..Len(written.before) :
          /\ written.before[i].kind = "router"
          /\ written.before[i].writable
          /\ written.before[i].hostname = written.router_configs.items[k].hostname
          /\ written.before[i].rev # written.router_configs.items[k].text.rev

\* the fields and widgets that reset sets, as __init__ left them
AppCleared ==
    /\ app.json_file_path = None
    /\ app.project_path = None
    /\ app.generate_button = "disabled"
    /\ app.json_file_label = NoApp.json_file_label
    /\ app.project_path_label = NoApp.project_path_label
    /\ app.intent_file = NoApp.intent_file
    /\ app.router_configs = NoApp.router_configs

\* C20: after any sequence of events the Generate button is enabled exactly
\* when json_file_path and project_path are both set; after a cancelled
\* dialog, after generate_configs (whatever its outcome) and after reset the
\* app is back in its initial state, both paths cleared, the button disabled.
C20_GenerateButton ==
    /\ app.generate_button = "normal" <=>
          app.json_file_path # None /\ app.project_path # None
    /\ app.event \in {"__init__", "cancel_json_file", "cancel_project_path",
                      "generate_configs", "reset"} => AppCleared

\* both paths were chosen again after a generate_configs that overwrote
\* files, and the button is enabled
C20_Witness ==
    /\ app.generate_button = "normal"
    /\ app.json_file_path # None
    /\ app.project_path # None
    /\ app.message = "Success"
    /\ written.called
    /\ project # written.before
====
